---- MODULE Spec2Model ----
(***************************************************************************)
(* Model of the argp command line parser (package argp): the composite     *)
(* value scanner (scanValue, truncEnd), the option/argument dispatcher     *)
(* (Argp.parse, scanVar), the Count and Append custom destinations and the *)
(* parser tree (vars, cmds).                                               *)
(*                                                                         *)
(* A Go string is modelled as the sequence of its bytes, each byte a       *)
(* one-character TLA+ string; the model's alphabet is ASCII, so a byte is  *)
(* a rune.  Go slice expressions s[a:b] are 0-based and half-open; the     *)
(* helper Sub(s, a, b) keeps the source's indices.                         *)
(***************************************************************************)
EXTENDS Integers, Sequences, FiniteSets, TLC

(***************************************************************************)
(* Strings                                                                 *)
(***************************************************************************)

\* s[a:b] of Go, for a string or a slice
Sub(s, a, b) == SubSeq(s, a + 1, b)

\* s[a:] of Go
From(s, a) == SubSeq(s, a + 1, Len(s))

RECURSIVE IndexFrom(_, _, _)
IndexFrom(s, cs, i) ==
    IF i > Len(s) THEN -1
    ELSE IF s[i] \in cs THEN i - 1
    ELSE IndexFrom(s, cs, i + 1)

\* strings.IndexByte(s, c): 0-based index of the first c in s, or -1
IndexByte(s, c) == IndexFrom(s, {c}, 1)

\* strings.IndexAny(s, chars): 0-based index of the first byte of s in cs, or -1
IndexAny(s, cs) == IndexFrom(s, cs, 1)

Upper == <<"A", "B", "C", "F", "T", "R", "U", "E", "L", "S", "I">>
Lower == <<"a", "b", "c", "f", "t", "r", "u", "e", "l", "s", "i">>

\* unicode.ToLower on one byte
ToLowerByte(c) ==
    IF \E k \in 1..Len(Upper) : Upper[k] = c
    THEN Lower[CHOOSE k \in 1..Len(Upper) : Upper[k] = c]
    ELSE c

\* unicode.IsUpper and unicode.ToTitle on one byte
IsUpper(c) == \E k \in 1..Len(Upper) : Upper[k] = c

ToTitle(c) ==
    IF \E k \in 1..Len(Lower) : Lower[k] = c
    THEN Upper[CHOOSE k \in 1..Len(Lower) : Lower[k] = c]
    ELSE c

\* strings.ToLower
ToLower(s) == [k \in 1..Len(s) |-> ToLowerByte(s[k])]

Digits == <<"0", "1", "2", "3", "4", "5", "6", "7", "8", "9">>

IsDigit(c) == \E k \in 1..10 : Digits[k] = c

DigitVal(c) == (CHOOSE k \in 1..10 : Digits[k] = c) - 1

RECURSIVE DecVal(_)
DecVal(s) ==
    IF s = <<>> THEN 0
    ELSE 10 * DecVal(Sub(s, 0, Len(s) - 1)) + DigitVal(s[Len(s)])

AllDigits(s) == s # <<>> /\ \A k \in 1..Len(s) : IsDigit(s[k])

(***************************************************************************)
(* strconv                                                                 *)
(***************************************************************************)

TrueLits ==
    { <<"1">>, <<"t">>, <<"T">>, <<"t", "r", "u", "e">>,
      <<"T", "R", "U", "E">>, <<"T", "r", "u", "e">> }

FalseLits ==
    { <<"0">>, <<"f">>, <<"F">>, <<"f", "a", "l", "s", "e">>,
      <<"F", "A", "L", "S", "E">>, <<"F", "a", "l", "s", "e">> }

\* strconv.ParseBool: [ok, v]
ParseBool(s) ==
    IF s \in TrueLits THEN [ok |-> TRUE, v |-> TRUE]
    ELSE IF s \in FalseLits THEN [ok |-> TRUE, v |-> FALSE]
    ELSE [ok |-> FALSE, v |-> FALSE]

\* strconv.ParseInt(s, 10, 64): an optional sign and decimal digits.  The
\* tokens of the model have few digits, so the 64 bit range check never fails.
ParseInt(s) ==
    IF s # <<>> /\ s[1] \in {"+", "-"}
    THEN IF AllDigits(From(s, 1))
         THEN [ok |-> TRUE,
               v |-> IF s[1] = "-" THEN 0 - DecVal(From(s, 1)) ELSE DecVal(From(s, 1))]
         ELSE [ok |-> FALSE, v |-> 0]
    ELSE IF AllDigits(s) THEN [ok |-> TRUE, v |-> DecVal(s)]
    ELSE [ok |-> FALSE, v |-> 0]

\* strconv.ParseUint(s, 10, 64): decimal digits only, no sign
ParseUint(s) ==
    IF AllDigits(s) THEN [ok |-> TRUE, v |-> DecVal(s)]
    ELSE [ok |-> FALSE, v |-> 0]

(***************************************************************************)
(* Types and values (package reflect)                                      *)
(*   string  a byte sequence        bool   a BOOLEAN                       *)
(*   int/uint of a bit size: an integer                                    *)
(*   slice, array: a sequence       struct: the sequence of its fields     *)
(*   map: [isNil, kv], kv a function from keys to values                   *)
(***************************************************************************)

TString == [k |-> "string"]
TBool == [k |-> "bool"]
\* fixed width integers; kind is the reflect.Kind
TIntN(b) == [k |-> "int", bits |-> b, kind |-> "IntN"]
TUintN(b) == [k |-> "uint", bits |-> b, kind |-> "UintN"]
\* int and uint (64 bits wide; their reflect.Kind is Int and Uint, not Int64 and Uint64)
TInt == [k |-> "int", bits |-> 64, kind |-> "Int"]
TUint == [k |-> "uint", bits |-> 64, kind |-> "Uint"]
TSlice(e) == [k |-> "slice", elem |-> e]
TArray(n, e) == [k |-> "array", len |-> n, elem |-> e]
TMap(kt, e) == [k |-> "map", key |-> kt, elem |-> e]
TStruct(fs) == [k |-> "struct", fields |-> fs]

NilMap == [isNil |-> TRUE, kv |-> <<>>]

\* reflect.Value.SetMapIndex
SetMapIndex(m, key, val) ==
    [isNil |-> FALSE,
     kv |-> [x \in (DOMAIN m.kv) \cup {key} |-> IF x = key THEN val ELSE m.kv[x]]]

RECURSIVE Zero(_)
\* reflect.Zero / reflect.New(t).Elem()
Zero(t) ==
    CASE t.k = "string" -> <<>>
      [] t.k = "bool" -> FALSE
      [] t.k \in {"int", "uint"} -> 0
      [] t.k = "slice" -> <<>>
      [] t.k = "array" -> [x \in 1..t.len |-> Zero(t.elem)]
      [] t.k = "map" -> NilMap
      [] t.k = "struct" -> [x \in 1..Len(t.fields) |-> Zero(t.fields[x].typ)]

Pow2(b) == 2 ^ b

\* reflect.Value.SetInt: the value is converted to the destination's width
\* (int8(x), int16(x), ...), which keeps the low bits.  Widths of 32 and 64
\* bits hold every number the model's tokens can spell.
SetInt(t, x) ==
    IF t.bits >= 32 THEN x
    ELSE LET m == x % Pow2(t.bits)
         IN  IF m >= Pow2(t.bits - 1) THEN m - Pow2(t.bits) ELSE m

\* reflect.Value.SetUint
SetUint(t, x) == IF t.bits >= 32 THEN x ELSE x % Pow2(t.bits)

(***************************************************************************)
(* truncEnd                                                                *)
(***************************************************************************)

\* item[i]+2: the closing bracket of an opening one
Closing(c) == IF c = "{" THEN "}" ELSE "]"

\* the three results of truncEnd; ok is FALSE where the first result is nil
TruncResult(ok, s, k, split) == [ok |-> ok, s |-> s, k |-> k, split |-> split]

RECURSIVE truncLoop(_, _, _, _)
\* the two nested loops of truncEnd, at item n (from 0) and byte i (from 0)
truncLoop(s, n, i, levels) ==
    IF n >= Len(s)
    THEN IF Len(levels) = 0
         THEN TruncResult(TRUE, Sub(s, 0, 1), From(s, 1), FALSE)
         ELSE TruncResult(FALSE, <<>>, s, FALSE)
    ELSE IF i >= Len(s[n + 1]) THEN truncLoop(s, n + 1, 0, levels)
    ELSE LET c == s[n + 1][i + 1]
         IN  IF c \in {"{", "["}
             THEN truncLoop(s, n, i + 1, Append(levels, Closing(c)))
             ELSE IF c \in {"}", "]"}
             THEN IF Len(levels) = 0 \/ levels[Len(levels)] # c
                  THEN TruncResult(FALSE, <<>>, s, FALSE)
                  ELSE IF Len(levels) = 1
                  THEN IF i + 1 = Len(s[n + 1])
                       THEN TruncResult(TRUE, Sub(s, 0, n + 1), From(s, n + 1), FALSE)
                       ELSE TruncResult(TRUE,
                                Append(Sub(s, 0, n), Sub(s[n + 1], 0, i + 1)),
                                <<From(s[n + 1], i + 1)>> \o From(s, n + 1),
                                TRUE)
                  ELSE truncLoop(s, n, i + 1, Sub(levels, 0, Len(levels) - 1))
             ELSE truncLoop(s, n, i + 1, levels)

\* truncEnd splits the arguments in the values of one bracketed composite and
\* the remaining arguments
truncEnd(s) ==
    IF Len(s) = 0 THEN TruncResult(TRUE, <<>>, s, FALSE)
    ELSE truncLoop(s, 0, 0, <<>>)

(***************************************************************************)
(* scanValue                                                               *)
(* The result is [n, err, val]: the number of arguments consumed, the      *)
(* error ("" is nil; the text is the constant part of the innermost        *)
(* message) and the value the destination holds afterwards.  cur is the    *)
(* value the destination holds before the call.                            *)
(***************************************************************************)

ScanResult(n, err, val) == [n |-> n, err |-> err, val |-> val]

IsBracket(tok) == 0 < Len(tok) /\ tok[1] \in {"{", "["}

\* the brackets are removed from the first and the last argument
stripBrackets(s) ==
    LET a == IF Len(s[1]) = 1 THEN From(s, 1)
             ELSE <<From(s[1], 1)>> \o From(s, 1)
        l == a[Len(a)]
    IN  IF Len(l) = 1 THEN Sub(a, 0, Len(a) - 1)
        ELSE Append(Sub(a, 0, Len(a) - 1), Sub(l, 0, Len(l) - 1))

\* a skipEmpty that does not count the strings it skips
RECURSIVE skipEmptyUncounted(_, _)
skipEmptyUncounted(s, n) ==
    IF 0 < Len(s) /\ Len(s[1]) = 0 THEN skipEmptyUncounted(From(s, 1), n)
    ELSE [s |-> s, n |-> n]

RECURSIVE skipEmpty(_, _)
\* for 0 < len(s) && len(s[0]) == 0 { s = s[1:]; n++ }
skipEmpty(s, n) ==
    IF 0 < Len(s) /\ Len(s[1]) = 0 THEN skipEmpty(From(s, 1), n + 1)
    ELSE [s |-> s, n |-> n]

\* if len(s[0]) == 1 { s = s[1:] } else { s[0] = s[0][1:] }
dropByte(s) ==
    IF Len(s[1]) = 1 THEN From(s, 1) ELSE <<From(s[1], 1)>> \o From(s, 1)

RECURSIVE scanValue(_, _, _)
RECURSIVE sliceLoop(_, _, _, _, _, _, _)
RECURSIVE mapLoop(_, _, _, _)
RECURSIVE structLoop(_, _, _, _, _)

\* the end of the array/slice case: the arity check and v.Set
sliceSet(t, cur, n, j, slice) ==
    IF t.k = "array"
    THEN IF j # t.len THEN ScanResult(0, "expected values", cur)
         ELSE ScanResult(n, "", slice)
    ELSE ScanResult(n, "", slice)

\* one element of the array/slice loop, the separator already consumed
sliceElem(t, cur, s, n, j, slice, comma) ==
    LET idx == IF Len(s) = 0 THEN -1 ELSE IndexByte(s[1], ",")
        tr == truncEnd(s)
    IN  IF Len(s) = 0
        THEN IF ~comma \/ j = 0 THEN sliceSet(t, cur, n, j, slice)
             ELSE LET r == scanValue(t.elem, Zero(t.elem), << <<>> >>)
                  IN  IF r.err # "" THEN ScanResult(0, r.err, cur)
                      ELSE sliceLoop(t, cur, s, n, j + 1, Append(slice, r.val), comma)
        ELSE IF IsBracket(s[1])
        THEN IF comma THEN ScanResult(0, "invalid value", cur)
             ELSE IF ~tr.ok \/ tr.split THEN ScanResult(0, "invalid value", cur)
             ELSE LET r == scanValue(t.elem, Zero(t.elem), tr.s)
                  IN  IF r.err # "" THEN ScanResult(0, r.err, cur)
                      ELSE sliceLoop(t, cur, tr.k, n, j + 1, Append(slice, r.val), comma)
        ELSE IF idx # -1 /\ comma
        THEN LET r == scanValue(t.elem, Zero(t.elem), <<Sub(s[1], 0, idx)>>)
             IN  IF r.err # "" THEN ScanResult(0, r.err, cur)
                 ELSE sliceLoop(t, cur, <<From(s[1], idx)>> \o From(s, 1), n, j + 1,
                                Append(slice, r.val), comma)
        ELSE LET r == scanValue(t.elem, Zero(t.elem), <<s[1]>>)
             IN  IF r.err # "" THEN ScanResult(0, r.err, cur)
                 ELSE sliceLoop(t, cur, From(s, 1), IF comma THEN n + 1 ELSE n, j + 1,
                                Append(slice, r.val), comma)

\* the for loop of the array/slice case, at element j
sliceLoop(t, cur, s, n, j, slice, comma) ==
    IF j # 0 /\ comma
    THEN LET e == skipEmpty(s, n)
         IN  IF Len(e.s) = 0 \/ e.s[1][1] # "," THEN sliceSet(t, cur, e.n, j, slice)
             ELSE IF Len(e.s[1]) = 1
             THEN sliceElem(t, cur, From(e.s, 1), e.n + 1, j, slice, comma)
             ELSE sliceElem(t, cur, dropByte(e.s), e.n, j, slice, comma)
    ELSE sliceElem(t, cur, s, n, j, slice, comma)

\* the value of one map entry, the key scanned
mapValue(t, s, n, m, key) ==
    LET idx == IF Len(s) = 0 THEN -1 ELSE IndexByte(s[1], ",")
        tr == truncEnd(s)
        sVal == IF Len(s) = 0 THEN << <<>> >>
                ELSE IF IsBracket(s[1]) THEN tr.s
                ELSE IF idx # -1 THEN <<Sub(s[1], 0, idx)>>
                ELSE <<s[1]>>
        k == IF Len(s) = 0 THEN s
             ELSE IF IsBracket(s[1]) THEN tr.k
             ELSE IF idx # -1 THEN <<From(s[1], idx + 1)>> \o From(s, 1)
             ELSE From(s, 1)
    IN  IF Len(s) # 0 /\ IsBracket(s[1]) /\ (~tr.ok \/ tr.split)
        THEN ScanResult(0, "invalid value", m)
        ELSE LET r == scanValue(t.elem, Zero(t.elem), sVal)
             IN  IF r.err # "" THEN ScanResult(0, r.err, m)
                 ELSE mapLoop(t, k, n, SetMapIndex(m, key, r.val))

\* the key of one map entry: scanned from sKey, the value follows in k
mapKey(t, sKey, k, n, m) ==
    LET r == scanValue(t.key, Zero(t.key), sKey)
    IN  IF r.err # "" THEN ScanResult(0, r.err, m)
        ELSE mapValue(t, k, n, m, r.val)

\* the for loop of the map case
mapLoop(t, s, n, m) ==
    IF Len(s) = 0 THEN ScanResult(n, "", m)
    ELSE IF IsBracket(s[1])
    THEN LET tr == truncEnd(s)
         IN  IF ~tr.ok THEN ScanResult(0, "invalid map key", m)
             ELSE IF Len(tr.k) = 0 \/ Len(tr.k[1]) = 0 \/ tr.k[1][1] # ":"
             THEN ScanResult(0, "missing semicolon", m)
             ELSE mapKey(t, tr.s, dropByte(tr.k), n, m)
    ELSE LET idx == IndexByte(s[1], ":")
         IN  IF idx = -1
             THEN LET e == skipEmpty(From(s, 1), 0)
                  IN  IF Len(e.s) = 0 THEN ScanResult(n, "", m)
                      ELSE IF e.s[1][1] # ":" THEN ScanResult(0, "missing semicolon", m)
                      ELSE mapKey(t, <<s[1]>>, dropByte(e.s), n, m)
             ELSE mapKey(t, <<Sub(s[1], 0, idx)>>,
                         <<From(s[1], idx + 1)>> \o From(s, 1), n, m)

\* the for loop of the struct case, at field j (from 0); the fields are set
\* in place
structLoop(t, s, n, j, val) ==
    LET e == skipEmpty(s, 0)
        tr == truncEnd(e.s)
    IN  IF j >= Len(t.fields) \/ Len(e.s) = 0
        THEN LET rem == IF j >= Len(t.fields) THEN s ELSE e.s
             IN  IF j # Len(t.fields) THEN ScanResult(0, "missing struct fields", val)
                 ELSE IF Len(rem) # 0 THEN ScanResult(0, "too many struct fields", val)
                 ELSE ScanResult(n, "", val)
        ELSE IF IsBracket(e.s[1]) /\ (~tr.ok \/ tr.split)
        THEN ScanResult(0, "invalid value", val)
        ELSE LET sVal == IF IsBracket(e.s[1]) THEN tr.s ELSE <<e.s[1]>>
                 k == IF IsBracket(e.s[1]) THEN tr.k ELSE From(e.s, 1)
                 r == scanValue(t.fields[j + 1].typ, val[j + 1], sVal)
                 w == [val EXCEPT ![j + 1] = r.val]
             IN  IF r.err # "" THEN ScanResult(0, r.err, w)
                 ELSE structLoop(t, k, n, j + 1, w)

scanValue(t, cur, s) ==
    IF Len(s) = 0
    THEN IF t.k = "string" THEN ScanResult(0, "", <<>>)
         ELSE ScanResult(0, "missing value", cur)
    ELSE CASE t.k = "string" -> ScanResult(1, "", s[1])
           [] t.k = "bool" ->
                LET p == ParseBool(s[1])
                IN  IF ~p.ok THEN ScanResult(0, "invalid boolean", cur)
                    ELSE ScanResult(1, "", p.v)
           [] t.k = "int" ->
                LET p == ParseInt(s[1])
                IN  IF ~p.ok THEN ScanResult(0, "invalid integer", cur)
                    ELSE ScanResult(1, "", SetInt(t, p.v))
           [] t.k = "uint" ->
                LET p == ParseUint(s[1])
                IN  IF ~p.ok THEN ScanResult(0, "invalid positive integer", cur)
                    ELSE ScanResult(1, "", SetUint(t, p.v))
           [] t.k \in {"array", "slice"} ->
                LET tr == truncEnd(s)
                    start == IF t.k = "slice" THEN cur ELSE <<>>
                IN  IF Len(s[1]) = 0 THEN ScanResult(1, "", cur)
                    ELSE IF s[1][1] # "[" THEN sliceLoop(t, cur, s, 0, 0, start, TRUE)
                    ELSE IF ~tr.ok \/ tr.split
                    THEN ScanResult(0, IF t.k = "slice" THEN "invalid slice"
                                       ELSE "invalid array", cur)
                    ELSE sliceLoop(t, cur, stripBrackets(tr.s), Len(tr.s), 0, start, FALSE)
           [] t.k = "map" ->
                LET tr == truncEnd(s)
                IN  IF Len(s[1]) = 0 THEN ScanResult(1, "", cur)
                    ELSE IF s[1][1] # "{" THEN ScanResult(0, "invalid map", cur)
                    ELSE IF ~tr.ok \/ tr.split THEN ScanResult(0, "invalid map", cur)
                    ELSE mapLoop(t, stripBrackets(tr.s), Len(tr.s), cur)
           [] t.k = "struct" ->
                LET tr == truncEnd(s)
                IN  IF Len(s[1]) = 0 THEN ScanResult(1, "", cur)
                    ELSE IF s[1][1] # "{" THEN ScanResult(0, "invalid struct", cur)
                    ELSE IF ~tr.ok \/ tr.split THEN ScanResult(0, "invalid struct", cur)
                    ELSE structLoop(t, stripBrackets(tr.s), Len(tr.s), 0, cur)

(***************************************************************************)
(* Custom destinations: Count and Append                                   *)
(***************************************************************************)

\* Count.Scan.  isInt is written with t != reflect.Int64 in its last
\* disjunct, so it holds of every kind but Int64; SetInt and Int panic on a
\* variable that is not a signed integer.
CountScan(t, cur, s) ==
    LET isInt == ~(t.k = "int" /\ t.bits = 64 /\ t.kind = "IntN")
        isUint == t.k = "uint"
    IN  IF ~isInt /\ ~isUint
        THEN ScanResult(0, "variable must be a pointer to an integer type", cur)
        ELSE IF 0 < Len(s) /\ 0 < Len(s[1]) /\ IsDigit(s[1][1])
        THEN scanValue(t, cur, s)
        ELSE IF isInt
        THEN IF t.k = "int" THEN ScanResult(0, "", SetInt(t, cur + 1))
             ELSE ScanResult(0, "panic", cur)
        ELSE ScanResult(0, "", SetUint(t, cur + 1))

\* Append.Scan: one element is scanned and appended to the slice
AppendScan(t, cur, s) ==
    LET appended(r) == IF r.err = "" THEN ScanResult(r.n, "", Append(cur, r.val))
                       ELSE ScanResult(r.n, r.err, cur)
    IN  IF t.k # "slice" THEN ScanResult(0, "variable must be a pointer to a slice", cur)
        ELSE appended(scanValue(t.elem, Zero(t.elem), s))

(***************************************************************************)
(* scanVar                                                                 *)
(***************************************************************************)

RECURSIVE fromFieldnameAt(_, _, _)
\* the loop of fromFieldname at byte k (from 1): the name an option gets from
\* a field, in lower case with a '-' before a capital that begins a word
fromFieldnameAt(field, k, prevUpper) ==
    IF k > Len(field) THEN <<>>
    ELSE IF IsUpper(field[k])
    THEN LET hasNext == k < Len(field)
             nextUpper == hasNext /\ IsUpper(field[k + 1])
             dash == k # 1 /\ hasNext /\ (~prevUpper \/ ~nextUpper)
         IN  (IF dash THEN <<"-">> ELSE <<>>) \o <<ToLowerByte(field[k])>>
                 \o fromFieldnameAt(field, k + 1, TRUE)
    ELSE <<field[k]>> \o fromFieldnameAt(field, k + 1, FALSE)

fromFieldname(field) == fromFieldnameAt(field, 1, FALSE)

RECURSIVE toFieldnameAt(_, _, _)
\* the loop of toFieldname at byte k (from 1)
toFieldnameAt(name, k, capitalize) ==
    IF k > Len(name) THEN <<>>
    ELSE IF capitalize THEN <<ToTitle(name[k])>> \o toFieldnameAt(name, k + 1, FALSE)
    ELSE IF name[k] = "-" THEN toFieldnameAt(name, k + 1, TRUE)
    ELSE <<name[k]>> \o toFieldnameAt(name, k + 1, FALSE)

toFieldname(name) == toFieldnameAt(name, 1, TRUE)

\* for _, v := range argp.vars { if ... { return v } }; return nil: the
\* least k that hits[k] holds of, 0 for nil
First(hits) ==
    IF \E k \in 1..Len(hits) : hits[k]
    THEN CHOOSE k \in 1..Len(hits) : hits[k] /\ \A l \in 1..(k - 1) : ~hits[l]
    ELSE 0

\* v.FieldByName of the field a name in a path stands for: the first field
\* the name is the option name of, else the field named toFieldname(name);
\* 0 where the struct has no such field (the fields carry no tags)
fieldByName(t, name) ==
    LET found == First([x \in 1..Len(t.fields) |-> fromFieldname(t.fields[x].name) = name])
    IN  IF found # 0 THEN found
        ELSE First([x \in 1..Len(t.fields) |-> t.fields[x].name = toFieldname(name)])

RECURSIVE scanPath(_, _, _, _)
\* scanVar on a value of type t that holds cur: a name with '.' or '[' picks
\* a field, an element or an entry and the rest of the name goes on from
\* there.  A boolean whose value does not scan is set to true and consumes
\* nothing.
scanPath(t, cur, name, s) ==
    LET i == IndexAny(name, {".", "["})
        scanned(r) == IF r.err # "" /\ t.k = "bool" THEN ScanResult(0, "", TRUE)
                      ELSE r
    IN  IF i = -1 THEN scanned(scanValue(t, cur, s))
        ELSE
        LET dot == name[i + 1] = "."
            next == IndexAny(From(name, i + 1), {".", "["})
            close == IndexByte(From(name, i + 1), "]")
            j == IF dot THEN (IF next = -1 THEN Len(name) ELSE next + i + 1)
                 ELSE close + i + 2
            part == IF dot THEN Sub(name, i + 1, j) ELSE Sub(name, i + 1, j - 1)
            rest == From(name, j)
            element(index) ==
                IF index.err # "" THEN ScanResult(0, index.err, cur)
                ELSE IF index.val < 0 \/ Len(cur) <= index.val
                THEN ScanResult(0, "out of range", cur)
                ELSE LET at(r) == ScanResult(r.n, r.err, [cur EXCEPT ![index.val + 1] = r.val])
                     IN  at(scanPath(t.elem, cur[index.val + 1], rest, s))
            entry(key) ==
                IF key.err # "" THEN ScanResult(0, key.err, cur)
                ELSE LET made == IF cur.isNil THEN [isNil |-> FALSE, kv |-> <<>>] ELSE cur
                         set(r) == IF r.err = ""
                                   THEN ScanResult(r.n, "", SetMapIndex(made, key.val, r.val))
                                   ELSE ScanResult(r.n, r.err, made)
                     IN  set(scanPath(t.elem, Zero(t.elem), rest, s))
            field(x) ==
                IF x = 0 THEN ScanResult(0, "struct field: missing field", cur)
                ELSE LET at(r) == ScanResult(r.n, r.err, [cur EXCEPT ![x] = r.val])
                     IN  at(scanPath(t.fields[x].typ, cur[x], rest, s))
        IN  IF ~dot /\ close = -1
            THEN ScanResult(0, "expected terminating ] in variable index", cur)
            ELSE IF t.k \in {"array", "slice"}
            THEN element(scanValue(TInt, 0, <<part>>))
            ELSE IF t.k = "map" THEN entry(scanValue(t.key, Zero(t.key), <<part>>))
            ELSE IF t.k = "struct" THEN field(fieldByName(t, part))
            ELSE ScanResult(0, "unexpected in name", cur)

\* scanVar on the destination of v
scanVar(v, name, s) ==
    IF v.custom = "Count" THEN CountScan(v.typ, v.Value, s)
    ELSE IF v.custom = "Append" THEN AppendScan(v.typ, v.Value, s)
    ELSE scanPath(v.typ, v.Value, name, s)

(***************************************************************************)
(* The strings of s after scanValue.  s is a slice of the array of the     *)
(* caller, and the array/slice case assigns to its elements: s[0] =        *)
(* s[0][1:] for a bracket and a comma, s[0] = s[0][idx:] for a field, and  *)
(* truncEnd k[0] = k[0][i+1:] where it splits a string.  The operators     *)
(* follow an array or slice whose elements are no composites (their scan   *)
(* assigns nothing); done are the strings the slice has moved past.        *)
(***************************************************************************)

RECURSIVE bracketWrites(_, _, _)
\* the loop over the elements between the brackets
bracketWrites(t, done, s) ==
    IF Len(s) = 0 THEN done
    ELSE IF IsBracket(s[1])
    THEN LET tr == truncEnd(s)
         IN  IF ~tr.ok THEN done \o s
             ELSE IF tr.split THEN done \o Sub(s, 0, Len(tr.s) - 1) \o tr.k
             ELSE IF scanValue(t.elem, Zero(t.elem), tr.s).err # "" THEN done \o s
             ELSE bracketWrites(t, done \o tr.s, tr.k)
    ELSE IF scanValue(t.elem, Zero(t.elem), <<s[1]>>).err # "" THEN done \o s
    ELSE bracketWrites(t, Append(done, s[1]), From(s, 1))

RECURSIVE commaWrites(_, _, _, _)
\* the loop over the fields between commas, at element j
commaWrites(t, done, s, j) ==
    LET empties == Len(s) - Len(skipEmpty(s, 0).s)
        d == IF j # 0 THEN done \o Sub(s, 0, empties) ELSE done
        e == IF j # 0 THEN From(s, empties) ELSE s
        ends == j # 0 /\ (Len(e) = 0 \/ e[1][1] # ",")
        d1 == IF j # 0 /\ ~ends /\ Len(e[1]) = 1 THEN Append(d, e[1]) ELSE d
        e1 == IF j # 0 /\ ~ends THEN dropByte(e) ELSE e
        idx == IF Len(e1) = 0 THEN -1 ELSE IndexByte(e1[1], ",")
    IN  IF ends THEN d \o e
        ELSE IF Len(e1) = 0
        THEN IF scanValue(t.elem, Zero(t.elem), << <<>> >>).err # "" THEN d1
             ELSE commaWrites(t, d1, e1, j + 1)
        ELSE IF IsBracket(e1[1]) THEN d1 \o e1
        ELSE IF idx # -1
        THEN LET cut == <<From(e1[1], idx)>> \o From(e1, 1)
             IN  IF scanValue(t.elem, Zero(t.elem), <<Sub(e1[1], 0, idx)>>).err # ""
                 THEN d1 \o cut
                 ELSE commaWrites(t, d1, cut, j + 1)
        ELSE IF scanValue(t.elem, Zero(t.elem), <<e1[1]>>).err # "" THEN d1 \o e1
        ELSE commaWrites(t, Append(d1, e1[1]), From(e1, 1), j + 1)

\* the array/slice case of scanValue: in brackets the first and the last
\* string lose their bracket, or the slice moves past a string that is a
\* bracket and no more
sliceWrites(t, s) ==
    LET tr == truncEnd(s)
        opened == dropByte(tr.s)
        first == IF Len(s[1]) = 1 THEN <<s[1]>> ELSE <<>>
        l == opened[Len(opened)]
        inner == IF Len(l) = 1 THEN Sub(opened, 0, Len(opened) - 1)
                 ELSE Append(Sub(opened, 0, Len(opened) - 1), Sub(l, 0, Len(l) - 1))
        last == IF Len(l) = 1 THEN <<l>> ELSE <<>>
    IN  IF Len(s[1]) = 0 THEN s
        ELSE IF s[1][1] # "[" THEN commaWrites(t, <<>>, s, 0)
        ELSE IF ~tr.ok THEN s
        ELSE IF tr.split THEN Sub(s, 0, Len(tr.s) - 1) \o tr.k
        ELSE bracketWrites(t, first, inner) \o last \o tr.k

\* the strings of s after scanVar on the destination of v
scanVarWrites(v, name, s) ==
    IF /\ v.custom = ""
       /\ IndexAny(name, {".", "["}) = -1
       /\ v.typ.k \in {"array", "slice"}
       /\ v.typ.elem.k \in {"string", "bool", "int", "uint"}
       /\ Len(s) # 0
    THEN sliceWrites(v.typ, s)
    ELSE s

(***************************************************************************)
(* Var and Argp                                                            *)
(* Value is the destination (the caller's variable the reflect.Value       *)
(* refers to), typ its type; Short is "" for 0; Default is <<>> for nil    *)
(* and <<d>> otherwise; custom is "" for a destination that is not Custom. *)
(***************************************************************************)

Var(val, typ, custom, name, short, index, isRest, def) ==
    [Value |-> val, typ |-> typ, custom |-> custom, Name |-> name, Short |-> short,
     Index |-> index, Rest |-> isRest, Default |-> def, isSet |-> FALSE]

findShort(vars, short) ==
    First([k \in 1..Len(vars) |-> vars[k].Short # "" /\ vars[k].Short = short])

findName(vars, name) ==
    IF name = <<>> THEN 0
    ELSE LET low == ToLower(name)
             cut == IndexAny(low, {".", "["})
             nm == IF cut # -1 THEN Sub(low, 0, cut) ELSE low
         IN  First([k \in 1..Len(vars) |->
                        vars[k].Name = nm \/ (vars[k].Name = <<>> /\ <<vars[k].Short>> = nm)])

findIndex(vars, index) == First([k \in 1..Len(vars) |-> vars[k].Index = index])

findRest(vars) == First([k \in 1..Len(vars) |-> vars[k].Rest])

\* New: a parser without command; NewCmd adds the help option
New ==
    [Cmd |-> FALSE, cmds |-> {},
     vars |-> <<Var(FALSE, TBool, "", <<"h", "e", "l", "p">>, "h", -1, FALSE, <<FALSE>>)>>]

\* AddOpt of a destination that passes the checks of the name and the type:
\* the default is the value the destination holds now, unless it is Custom
AddOpt(argp, val, typ, custom, short, name) ==
    [argp EXCEPT !.vars = Append(@,
        Var(val, typ, custom, ToLower(IF name = <<>> THEN <<short>> ELSE name), short,
            -1, FALSE, IF custom = "" THEN <<val>> ELSE <<>>))]

\* an AddArg that does not look for the next free index: variable.Index
\* stays as it was set before the loop
nextIndexKept(vars, k, index) == index

\* the next free index of AddArg
RECURSIVE nextIndex(_, _, _)
nextIndex(vars, k, index) ==
    IF k > Len(vars) THEN index
    ELSE nextIndex(vars, k + 1, IF index <= vars[k].Index THEN vars[k].Index + 1 ELSE index)

AddArg(argp, val, typ, custom, name) ==
    [argp EXCEPT !.vars = Append(@,
        Var(val, typ, custom, ToLower(name), "", nextIndex(argp.vars, 1, 0), FALSE,
            IF custom = "" THEN <<val>> ELSE <<>>))]

\* AddRest of a []string destination, on a parser without rest
AddRest(argp, val, name) ==
    [argp EXCEPT !.vars = Append(@,
        Var(val, TSlice(TString), "", ToLower(name), "", -1, TRUE, <<val>>))]

\* AddCmd of a new name: the sub command is stored under the lower case name.
\* sub is the parser's position in the sequence of all parsers.
AddCmd(argp, name, sub) ==
    [argp EXCEPT !.cmds = {c \in @ : c.cmd # ToLower(name)}
                           \cup {[cmd |-> ToLower(name), sub |-> sub]}]

(***************************************************************************)
(* Argp.parse                                                              *)
(* A call of parse is the record st: the parsers (argps, the root first),  *)
(* the parser the call runs on (node), its arguments (args), the cursor i  *)
(* of the loop over the arguments, the positional candidates (rest), and   *)
(* what it returns: err, with msg "" for nil, and the remaining arguments  *)
(* ret.  pc is "parse" at the entry, "scan" in the loop over the arguments, *)
(* "args" after a break out of it, "done" after the return and "panic"     *)
(* after a panic.                                                          *)
(***************************************************************************)

NoError == [msg |-> "", opt |-> <<>>]

Error(msg, opt) == [msg |-> msg, opt |-> opt]

\* a variant of Fail that sets the destinations back to their defaults
FailRollback(st, msg, opt) ==
    LET back(v) == IF v.Default # <<>> THEN [v EXCEPT !.Value = v.Default[1]] ELSE v
    IN  [st EXCEPT !.pc = IF msg = "panic" THEN "panic" ELSE "done",
                   !.err = Error(msg, opt), !.ret = <<>>,
                   !.argps[st.node].vars = [k \in 1..Len(@) |-> back(@[k])]]

\* return argp, nil, err (or the panic of a custom destination)
Fail(st, msg, opt) ==
    [st EXCEPT !.pc = IF msg = "panic" THEN "panic" ELSE "done",
               !.err = Error(msg, opt), !.ret = <<>>]

\* reflect.Value.Set and SetMapIndex through the destination of v.  A map
\* that is not nil is shared by the destination and the default the
\* destination was set to at the entry of parse.
\* a variant of Shared in which the default shares every value with the
\* destination
SharedAll(t, def, val) == val

RECURSIVE Shared(_, _, _)
Shared(t, def, val) ==
    CASE t.k = "map" -> IF def.isNil THEN def ELSE val
      [] t.k = "struct" -> [x \in 1..Len(t.fields) |-> Shared(t.fields[x].typ, def[x], val[x])]
      [] OTHER -> def

Store(v, val) ==
    [v EXCEPT !.Value = val,
              !.Default = IF @ = <<>> THEN @ ELSE <<Shared(v.typ, @[1], val)>>]

\* a variant of subCommand that compares the argument as it is written
subCommandExact(argp, args) ==
    IF 0 < Len(args) /\ \E c \in argp.cmds : c.cmd = args[1]
    THEN (CHOOSE c \in argp.cmds : c.cmd = args[1]).sub
    ELSE 0

\* the sub command the first argument names, 0 if none
subCommand(argp, args) ==
    IF 0 < Len(args) /\ \E c \in argp.cmds : c.cmd = ToLower(args[1])
    THEN (CHOOSE c \in argp.cmds : c.cmd = ToLower(args[1])).sub
    ELSE 0

\* return sub.parse(args[1:])
enterSub(st) ==
    [st EXCEPT !.node = subCommand(st.argps[st.node], st.args), !.args = From(st.args, 1)]

\* set defaults; rest := []string{}; i := 0
setDefaults(st) ==
    LET set(v) == IF v.Default # <<>> THEN [v EXCEPT !.Value = v.Default[1]] ELSE v
    IN  [st EXCEPT !.argps[st.node].vars = [k \in 1..Len(@) |-> set(@[k])],
                   !.rest = <<>>, !.i = 0, !.pc = "scan"]

\* a variant of terminator that skips "--" and goes on with the options
terminatorSkip(st) == [st EXCEPT !.i = @ + 1]

\* arg == "--": the arguments that follow are positional
terminator(st) ==
    [st EXCEPT !.rest = @ \o From(st.args, st.i + 1), !.pc = "args"]

\* the cursor after a long option that consumed n arguments: i += n; i-- if
\* the value was split off the argument; i++ of the loop
longCursor(i, n, split) == (IF split THEN i + n - 1 ELSE i + n) + 1

\* an argument that begins with "--"
longOption(st) ==
    LET arg == st.args[st.i + 1]
        idx == IndexByte(arg, "=")
        name == IF idx # -1 THEN Sub(arg, 2, idx) ELSE From(arg, 2)
        split == idx # -1 /\ idx + 1 < Len(arg)
        s == IF split THEN <<From(arg, idx + 1)>> \o From(st.args, st.i + 1)
             ELSE From(st.args, st.i + 1)
        vars == st.argps[st.node].vars
        k == findName(vars, name)
        \* s := args[i+1:] is a slice of the array of args: what scanVar
        \* assigns to s it assigns to args; a value split off the argument
        \* is the head of a new array
        written == IF split THEN st.args
                   ELSE Sub(st.args, 0, st.i + 1) \o scanVarWrites(vars[k], name, s)
        scanned(r) ==
            IF r.err # ""
            THEN Fail([st EXCEPT !.argps[st.node].vars[k] = Store(@, r.val),
                                 !.args = written],
                      r.err, <<"-", "-">> \o name)
            ELSE [st EXCEPT !.argps[st.node].vars[k] = [Store(@, r.val) EXCEPT !.isSet = TRUE],
                            !.i = longCursor(st.i, r.n, split),
                            !.args = written]
    IN  IF k = 0 THEN Fail(st, "unknown option", <<"-", "-">> \o name)
        ELSE scanned(scanVar(vars[k], name, s))

\* a variant of shortCursor without the n-- of a glued value
shortCursorKeep(i, n, valueGlued) == i + n + 1

\* the cursor after a short option that consumed n arguments: n-- if the
\* first of them was glued to the option; i += n; i++ of the loop
shortCursor(i, n, valueGlued) == (IF valueGlued THEN i + n - 1 ELSE i + n) + 1

RECURSIVE shortOptions(_, _)
\* an argument that begins with one "-": the loop over its bytes, at byte j.
\* Every path through the loop body returns, continues or breaks before the
\* assignment v.isSet = true that ends it.
shortOptions(st, j) ==
    LET arg == st.args[st.i + 1]
        name == arg[j + 1]
        j1 == j + 1
        vars == st.argps[st.node].vars
        k == findShort(vars, name)
        hasEquals == j1 < Len(arg) /\ arg[j1 + 1] = "="
        s0 == IF hasEquals THEN From(arg, j1 + 1) ELSE From(arg, j1)
        valueGlued == 0 < Len(s0)
        s == IF valueGlued THEN <<s0>> \o From(st.args, st.i + 1)
             ELSE From(st.args, st.i + 1)
        stored(r, set) ==
            IF r.err # "" THEN Fail(set, r.err, <<"-", name>>)
            ELSE IF r.n = 0 THEN shortOptions(set, j1)
            ELSE [set EXCEPT !.i = shortCursor(@, r.n, valueGlued)]
        scanned(r) == stored(r, [st EXCEPT !.argps[st.node].vars[k] = Store(@, r.val)])
    IN  IF j >= Len(arg) THEN [st EXCEPT !.i = @ + 1]
        ELSE IF k = 0 THEN Fail(st, "unknown option", <<"-", name>>)
        ELSE scanned(scanVar(vars[k], <<name>>, s))

\* a variant of positional that puts the candidate in front of the others
positionalFront(st) ==
    LET arg == st.args[st.i + 1]
    IN  [st EXCEPT !.rest = IF 0 < Len(arg) THEN <<arg>> \o @ ELSE @, !.i = @ + 1]

\* any other argument: a positional candidate, unless it is empty
positional(st) ==
    LET arg == st.args[st.i + 1]
    IN  [st EXCEPT !.rest = IF 0 < Len(arg) THEN Append(@, arg) ELSE @, !.i = @ + 1]

RECURSIVE indexed(_, _)
\* the loop over rest that scans the indexed arguments, at index
indexed(st, index) ==
    LET vars == st.argps[st.node].vars
        k == findIndex(vars, index)
        scanned(r) ==
            IF r.err # ""
            THEN [st |-> Fail([st EXCEPT !.argps[st.node].vars[k] = Store(@, r.val)],
                              r.err, <<Digits[index + 1]>>),
                  index |-> index]
            ELSE indexed([st EXCEPT !.argps[st.node].vars[k] =
                                        [Store(@, r.val) EXCEPT !.isSet = TRUE]],
                         index + 1)
    IN  IF index >= Len(st.rest) \/ k = 0 THEN [st |-> st, index |-> index]
        ELSE scanned(scanVar(vars[k], <<>>, <<st.rest[index + 1]>>))

\* the end of parse: the indexed arguments, the check of the missing ones and
\* the rest arguments
arguments(st) ==
    LET assigned(x) ==
            LET vars == x.st.argps[st.node].vars
                missing(v) == v.Index # -1 /\ x.index <= v.Index /\ v.Default = <<>>
                m == First([l \in 1..Len(vars) |-> missing(vars[l])])
                k == findRest(vars)
                tail == From(st.rest, x.index)
            IN  IF x.st.err # NoError THEN x.st
                ELSE IF m # 0
                THEN Fail(x.st, "argument is missing",
                          IF vars[m].Name = <<>> THEN <<Digits[x.index + 1]>>
                          ELSE vars[m].Name)
                ELSE IF k # 0
                THEN [x.st EXCEPT !.argps[st.node].vars[k] =
                                      [@ EXCEPT !.Value = tail, !.isSet = TRUE],
                                  !.rest = <<>>, !.ret = <<>>, !.pc = "done"]
                ELSE [x.st EXCEPT !.rest = tail, !.ret = tail, !.pc = "done"]
    IN  assigned(indexed(st, 0))

\* the kind of the argument at the cursor
IsTerminator(arg) == arg = <<"-", "-">>
IsLong(arg) == 1 < Len(arg) /\ arg[1] = "-" /\ arg[2] = "-" /\ ~IsTerminator(arg)
IsShort(arg) == 1 < Len(arg) /\ arg[1] = "-" /\ arg[2] # "-"

\* the loop over the arguments has ended
LoopEnded(st) == st.pc = "args" \/ (st.pc = "scan" /\ st.i >= Len(st.args))

\* one step of parse
step(st) ==
    IF st.pc = "parse"
    THEN IF subCommand(st.argps[st.node], st.args) # 0 THEN enterSub(st)
         ELSE setDefaults(st)
    ELSE IF LoopEnded(st) THEN arguments(st)
    ELSE LET arg == st.args[st.i + 1]
         IN  IF IsTerminator(arg) THEN terminator(st)
             ELSE IF IsLong(arg) THEN longOption(st)
             ELSE IF IsShort(arg) THEN shortOptions(st, 1)
             ELSE positional(st)

RECURSIVE run(_, _)
\* parse from st on, until it returns or fuel steps are taken
run(st, fuel) ==
    IF fuel = 0 \/ st.pc \in {"done", "panic"} THEN st
    ELSE run(step(st), fuel - 1)

\* parse from st on to its return: a call that returns takes one step for
\* each argument at most, and three more at its entry and its end
finish(st) == run(st, Len(st.args) + 3)

(***************************************************************************)
(* The parsers of the model and their arguments                            *)
(***************************************************************************)

\* the longest argument list
MaxArgs == 3

\* an array of two integers
Pair == TArray(2, TInt)

\* a struct of a boolean and an integer
Record ==
    TStruct(<<[name |-> <<"B", "o", "o", "l">>, typ |-> TBool],
              [name |-> <<"I", "n", "t">>, typ |-> TInt]>>)

Root ==
    LET o1 == AddOpt(New, FALSE, TBool, "", "a", <<>>)
        o2 == AddOpt(o1, FALSE, TBool, "", "b", <<>>)
        o3 == AddOpt(o2, FALSE, TBool, "", "t", <<>>)
        o4 == AddOpt(o3, 7, TInt, "", "c", <<>>)
        o5 == AddOpt(o4, << <<"d">> >>, TSlice(TString), "", "s", <<>>)
        o6 == AddOpt(o5, 0, TInt, "Count", "v", <<>>)
        o7 == AddOpt(o6, SetMapIndex(NilMap, <<"k">>, 1), TMap(TString, TInt), "", "m", <<>>)
        o8 == AddArg(o7, <<"q">>, TString, "", <<"f", "i", "l", "e">>)
        o9 == AddOpt(o8, <<7, 8>>, Pair, "", "p", <<>>)
        o10 == AddOpt(o9, SetMapIndex(NilMap, 1, <<7, 8>>), TMap(TInt, Pair), "", "w", <<>>)
        o11 == AddOpt(o10, <<FALSE, 7>>, Record, "", "r", <<>>)
    IN  AddCmd(o11, <<"r", "u", "n">>, 2)

Run ==
    LET o1 == AddOpt(New, 0, TInt, "", "n", <<>>)
        o2 == AddOpt(o1, 0, TUintN(8), "Count", "u", <<>>)
        o3 == AddArg(o2, 0, TInt, "", <<"n", "u", "m">>)
    IN  AddRest(o3, <<>>, <<"r", "e", "s", "t">>)

\* the parsers after construction: the root and its sub command "run"
Tree == <<Root, Run>>

\* the arguments of the scenarios
Flags ==
    { <<"-", "a">>, <<"-", "a", "b">>, <<"-", "a", "t">>, <<"-", "v", "v">>,
      <<"-", "-", "a">>, <<"-", "-", "a", "=", "x">>, <<"t">>, <<"x">>, <<"-", "-">> }

Values ==
    { <<"-", "c", "5">>, <<"-", "a", "c", "5">>, <<"-", "s">>, <<"-", "s", "x">>,
      <<"-", "s", "=", "x">>, <<"-", "-", "c">>, <<"5">>, <<"x">>, <<"-", "-">> }

Commands ==
    { <<"r", "u", "n">>, <<"R", "u", "n">>, <<"x">>, <<"5">>, <<"-", "n", "5">>,
      <<"-", "a">>, <<"-">>, <<>>, <<"-", "-">>, <<"-", "u">> }

Maps ==
    { <<"-", "m">>, <<"-", "m", "{", "a", ":", "1", "}">>, <<"{", "a", ":", "1", "}">>,
      <<"{", "a", ":", "2">>, <<"b", ":", "3", "}">>, <<"{", "k", ":", "5", "}">>,
      <<"x">>, <<"-", "-">>, <<"-", "-", "f", "i", "l", "e">> }

\* long options that address an entry of a map, an element of an array and
\* a field of a struct
Paths ==
    { <<"-", "-", "m", "[", "a", "]", "=", "1">>,
      <<"-", "-", "m", "[", "b", "]", "=", "2">>,
      <<"-", "-", "p", "[", "1", "]", "=", "5">>,
      <<"-", "-", "p", "[", "2", "]", "=", "5">>,
      <<"-", "-", "p", "[", "0", "]">>,
      <<"-", "-", "w", "[", "1", "]", "[", "0", "]", "=", "5">>,
      <<"-", "-", "w", "[", "x", "]", "[", "0", "]", "=", "5">>,
      <<"-", "-", "r", ".", "i", "n", "t", "=", "5">>,
      <<"5">> }

\* a long option for the slice of strings and its values, with a comma, in
\* brackets and with a bracket that is followed by more
Listed ==
    { <<"-", "-", "s">>, <<"x", ",", "5">>, <<"[", "x">>, <<"5", "]">>, <<"x">>,
      <<"[", "x", "]", "5">> }

Scenarios == {"flags", "values", "commands", "maps", "paths", "lists"}

Vocabulary(scenario) ==
    CASE scenario = "flags" -> Flags
      [] scenario = "values" -> Values
      [] scenario = "commands" -> Commands
      [] scenario = "maps" -> Maps
      [] scenario = "paths" -> Paths
      [] scenario = "lists" -> Listed

Inputs(scenario) ==
    UNION {[1..n -> Vocabulary(scenario)] : n \in 0..MaxArgs}

(***************************************************************************)
(* The state machine: a caller that calls parse on the root with some      *)
(* arguments and, after parse has returned, restores its variables and     *)
(* calls parse again with the same arguments.                              *)
(***************************************************************************)

VARIABLES
    scn,      \* the scenario the arguments are drawn from
    input,    \* the arguments of the call on the root
    argps,    \* the parsers: vars, with their destinations, defaults and isSet
    pc, node, args, i, rest, err, ret,    \* the running call of parse
    first     \* what the first call returned: <<>> before that

\* a call of scanValue by itself
VARIABLES
    dest,     \* the destination v: its type and the value it holds
    strs,     \* the strings s
    res,      \* what the call returned: <<>> before that
    phase     \* "off", "ready" or "done"

scanner == <<dest, strs, res, phase>>

\* the construction of a parser
VARIABLES
    parser,   \* the parser under construction: its vars and cmds
    subs,     \* the sub commands AddCmd has made, each with its name
    calls,    \* the number of calls of AddOpt, AddArg, AddRest and AddCmd
    stage     \* "off", "new" before NewCmd, "open" after it, "panic"

builder == <<parser, subs, calls, stage>>

\* a call of Parse: the process
VARIABLES
    status,   \* the status the process has exited with: -1 while it runs
    runs,     \* the number of calls of cmd.Cmd.Run
    logger,   \* argp.Error != nil
    runErr,   \* what Run returns: "nil", "ShowUsage" or "other"
    exec      \* "off", "call", "parsed", "ran", "exited" or "returned"

process == <<status, runs, logger, runErr, exec>>

vars ==
    <<scn, input, argps, pc, node, args, i, rest, err, ret, first, scanner, builder,
      process>>

\* the running call as a record, and the assignment of one
Cur ==
    [argps |-> argps, pc |-> pc, node |-> node, args |-> args, i |-> i,
     rest |-> rest, err |-> err, ret |-> ret]

Becomes(st) ==
    /\ argps' = st.argps
    /\ pc' = st.pc
    /\ node' = st.node
    /\ args' = st.args
    /\ i' = st.i
    /\ rest' = st.rest
    /\ err' = st.err
    /\ ret' = st.ret

\* the start of a call of parse on the root
Entry(ps, a) ==
    [argps |-> ps, pc |-> "parse", node |-> 1, args |-> a, i |-> 0,
     rest |-> <<>>, err |-> NoError, ret |-> <<>>]

\* the destinations of all parsers
Values_(ps) == [n \in 1..Len(ps) |-> [k \in 1..Len(ps[n].vars) |-> ps[n].vars[k].Value]]

\* what a call has returned: the parser, the remaining arguments, the error,
\* and the destinations
Outcome(st) ==
    [node |-> st.node, ret |-> st.ret, err |-> st.err, dst |-> Values_(st.argps)]

\* the caller sets its variables back to the values they had at registration
Restored(ps) ==
    [n \in 1..Len(ps) |->
        [ps[n] EXCEPT !.vars = [k \in 1..Len(@) |-> [@[k] EXCEPT !.Value = Tree[n].vars[k].Value]]]]

Init ==
    /\ scn \in Scenarios
    /\ input = <<>>
    /\ argps = Tree
    /\ pc = "idle"
    /\ node = 1
    /\ args = <<>>
    /\ i = 0
    /\ rest = <<>>
    /\ err = NoError
    /\ ret = <<>>
    /\ first = <<>>
    /\ dest = <<>>
    /\ strs = <<>>
    /\ res = <<>>
    /\ phase = "off"
    /\ parser = New
    /\ subs = <<>>
    /\ calls = 0
    /\ stage = "off"
    /\ status = -1
    /\ runs = 0
    /\ logger = FALSE
    /\ runErr = "nil"
    /\ exec = "off"

\* argp.parse(a)
Call ==
    /\ pc = "idle"
    /\ \E a \in Inputs(scn) :
          /\ input' = a
          /\ Becomes(Entry(argps, a))
    /\ UNCHANGED <<scn, first, scanner, builder, process>>

SubCommand ==
    /\ pc = "parse"
    /\ subCommand(argps[node], args) # 0
    /\ Becomes(enterSub(Cur))
    /\ UNCHANGED <<scn, input, first, scanner, builder, process>>

SetDefaults ==
    /\ pc = "parse"
    /\ subCommand(argps[node], args) = 0
    /\ Becomes(setDefaults(Cur))
    /\ UNCHANGED <<scn, input, first, scanner, builder, process>>

Terminator ==
    /\ pc = "scan"
    /\ i < Len(args)
    /\ IsTerminator(args[i + 1])
    /\ Becomes(terminator(Cur))
    /\ UNCHANGED <<scn, input, first, scanner, builder, process>>

LongOption ==
    /\ pc = "scan"
    /\ i < Len(args)
    /\ IsLong(args[i + 1])
    /\ Becomes(longOption(Cur))
    /\ UNCHANGED <<scn, input, first, scanner, builder, process>>

ShortOptions ==
    /\ pc = "scan"
    /\ i < Len(args)
    /\ IsShort(args[i + 1])
    /\ Becomes(shortOptions(Cur, 1))
    /\ UNCHANGED <<scn, input, first, scanner, builder, process>>

Positional ==
    /\ pc = "scan"
    /\ i < Len(args)
    /\ ~IsTerminator(args[i + 1])
    /\ ~IsLong(args[i + 1])
    /\ ~IsShort(args[i + 1])
    /\ Becomes(positional(Cur))
    /\ UNCHANGED <<scn, input, first, scanner, builder, process>>

Arguments ==
    /\ LoopEnded(Cur)
    /\ Becomes(arguments(Cur))
    /\ UNCHANGED <<scn, input, first, scanner, builder, process>>

\* parse has returned: the caller restores its variables and calls
\* argp.parse with the same arguments
Again ==
    /\ pc = "done"
    /\ first' = IF first = <<>> THEN <<Outcome(Cur)>> ELSE first
    /\ Becomes(Entry(Restored(argps), input))
    /\ UNCHANGED <<scn, input, scanner, builder, process>>

Next ==
    \/ Call
    \/ SubCommand
    \/ SetDefaults
    \/ Terminator
    \/ LongOption
    \/ ShortOptions
    \/ Positional
    \/ Arguments
    \/ Again

Spec == Init /\ [][Next]_vars

(***************************************************************************)
(* A call of scanValue by itself, on a destination of one of the types of  *)
(* TestArgpTypes and with strings drawn from the literals of that type.    *)
(***************************************************************************)

\* the largest number of strings of a call
MaxStrs == 3

\* the fixed-width integer types
Widths == {8, 16, 32, 64}
IntegerTypes == {TIntN(b) : b \in Widths} \cup {TUintN(b) : b \in Widths}

\* integer literals at the borders of the 8 and 16 bit ranges, and malformed ones
Numbers ==
    { <<"0">>, <<"1", "2", "7">>, <<"1", "2", "8">>, <<"-", "1", "2", "8">>,
      <<"-", "1", "2", "9">>, <<"2", "5", "5">>, <<"2", "5", "6">>, <<"3", "0", "0">>,
      <<"-", "1">>, <<"x">>, <<>>, <<"6", "5", "5", "3", "6">> }

\* the destinations: the type and the value held before the call
Dest(t, val) == [typ |-> t, val |-> val]

\* the literals of an array of two integers, in brackets and with commas
Arrays ==
    { <<"[", "1">>, <<"2">>, <<"2", "]">>, <<"[", "1", "]">>, <<>>,
      <<"1", ",", "2">>, <<"1">>, <<",", "2">> }

\* the literals of a struct of a boolean and an integer
Structs ==
    { <<"{", "t">>, <<"1", "}">>, <<"{", "t", "}">>, <<>>, <<"1">>, <<"{">>, <<"t">> }

\* maps from strings to the kinds of values, and map literals: entries, keys
\* without a value, keys without a colon
ValueTypes == {TString, TBool, TInt, TSlice(TInt)}

MapLiterals ==
    { <<"{", "a", ":", "1">>, <<"b", "}">>, <<"{", "b", "}">>, <<"{", "b">>,
      <<":", "2", "}">>, <<"b", ":", "2", "}">>, <<"{", "a", ":", "}">>,
      <<"{", "a", ":">>, <<"}">>, <<"b">>, <<>> }

\* a slice of strings and its values in comma form: a comma at the end of a
\* string, at its start, by itself and inside, an empty string, a space
Strs == TSlice(TString)

Lists ==
    { <<"a">>, <<"b", ",">>, <<",", "c">>, <<",">>, <<>>, <<"a", ",", "b">>,
      <<"a", " ", "b">> }

\* the values of a slice of strings in bracket form: a bracket by itself and
\* at the start or the end of a string, a nested bracket, a closing bracket
\* of the other kind, a bracket followed by more, an empty string
Bracketed ==
    { <<"[">>, <<"]">>, <<"[", "a">>, <<"b", "]">>, <<"b", "]", "]">>,
      <<"a", " ", "b">>, <<"[", "a", "]", "b">>, <<"b", "}">>, <<>> }

Families == {"integers", "arrays", "structs", "maps", "slices", "brackets"}

Destinations(family) ==
    CASE family = "integers" -> {Dest(t, 9) : t \in IntegerTypes \cup {TInt, TUint}}
      [] family = "arrays" -> {Dest(Pair, <<7, 8>>)}
      [] family = "structs" -> {Dest(Record, <<FALSE, 7>>)}
      [] family = "maps" -> {Dest(TMap(TString, e), NilMap) : e \in ValueTypes}
      [] family = "slices" -> {Dest(Strs, <<>>)}
      [] family = "brackets" -> {Dest(Strs, <<>>)}

Literals(family) ==
    CASE family = "integers" -> Numbers
      [] family = "arrays" -> Arrays
      [] family = "structs" -> Structs
      [] family = "maps" -> MapLiterals
      [] family = "slices" -> Lists
      [] family = "brackets" -> Bracketed

Strings(family) ==
    UNION {[1..n -> Literals(family)] : n \in 0..MaxStrs}

ScanInit ==
    /\ scn = "scan"
    /\ input = <<>>
    /\ argps = Tree
    /\ pc = "idle"
    /\ node = 1
    /\ args = <<>>
    /\ i = 0
    /\ rest = <<>>
    /\ err = NoError
    /\ ret = <<>>
    /\ first = <<>>
    /\ \E family \in Families :
          /\ dest \in Destinations(family)
          /\ strs \in Strings(family)
    /\ res = <<>>
    /\ phase = "ready"
    /\ parser = New
    /\ subs = <<>>
    /\ calls = 0
    /\ stage = "off"
    /\ status = -1
    /\ runs = 0
    /\ logger = FALSE
    /\ runErr = "nil"
    /\ exec = "off"

\* scanValue(v, s): res.val is the value v holds after the call
ScanValue ==
    /\ phase = "ready"
    /\ res' = scanValue(dest.typ, dest.val, strs)
    /\ phase' = "done"
    /\ UNCHANGED <<scn, input, argps, pc, node, args, i, rest, err, ret, first, dest, strs, builder, process>>

\* Count{&v}.Scan(name, s) on an integer destination: res.val is the value
\* v holds after the call, and res.err is "panic" where the call panics
CountScanned ==
    /\ phase = "ready"
    /\ dest.typ.k \in {"int", "uint"}
    /\ res' = CountScan(dest.typ, dest.val, strs)
    /\ phase' = "counted"
    /\ UNCHANGED <<scn, input, argps, pc, node, args, i, rest, err, ret, first, dest, strs, builder, process>>

ScanNext ==
    \/ ScanValue
    \/ CountScanned

ScanSpec == ScanInit /\ [][ScanNext]_vars

(***************************************************************************)
(* The construction of a parser: NewCmd on a command struct with tags,     *)
(* then calls of AddOpt, AddArg, AddRest and AddCmd.  A call that panics   *)
(* ends the construction.                                                  *)
(***************************************************************************)

\* the largest number of fields of a command struct, and of calls after NewCmd
MaxFields == 2
MaxCalls == 3

\* the characters of the model that are neither letters nor digits
Symbols == {"-", ".", "[", "]", "{", "}", ":", ",", "=", "+"}

\* isValidName: letters, digits and _, and - but not in front
isValidName(s) == \A k \in 1..Len(s) : s[k] \notin Symbols \/ (s[k] = "-" /\ k # 1)

\* the result of a construction step: the parser, or a panic
Built(argp) == [panic |-> FALSE, argp |-> argp]
Panicked(argp) == [panic |-> TRUE, argp |-> argp]

\* a field of a command struct with its tags name, short and index; the
\* fields are strings, the field with index "*" a []string
Field(name, short, index) == [name |-> name, short |-> short, index |-> index]

fieldName(f) ==
    IF f.name # <<>> THEN ToLower(f.name)
    ELSE IF f.short = "" THEN <<>> ELSE <<f.short>>

fieldIndex(f) == IF f.index \in {"", "*"} THEN -1 ELSE DigitVal(f.index)

fieldVar(f) ==
    LET typ == IF f.index = "*" THEN TSlice(TString) ELSE TString
    IN  Var(Zero(typ), typ, "", fieldName(f), f.short, fieldIndex(f), f.index = "*",
            IF fieldIndex(f) # -1 THEN <<Zero(typ)>> ELSE <<>>)

\* the checks of one field of NewCmd: the panics
fieldPanics(vs, f) ==
    \/ ~isValidName(fieldName(f))
    \/ findName(vs, fieldName(f)) # 0
    \/ f.short # "" /\ (~isValidName(<<f.short>>) \/ findShort(vs, f.short) # 0)
    \/ f.index # "" /\ f.short # ""
    \/ f.index = "*" /\ findRest(vs) # 0
    \/ f.index \notin {"", "*"} /\ findIndex(vs, DigitVal(f.index)) # 0

\* the loop of NewCmd over the fields of cmd, at field j
RECURSIVE newFields(_, _, _)
newFields(cmd, j, argp) ==
    IF j > Len(cmd) THEN Built(argp)
    ELSE IF fieldPanics(argp.vars, cmd[j]) THEN Panicked(argp)
    ELSE newFields(cmd, j + 1, [argp EXCEPT !.vars = Append(@, fieldVar(cmd[j]))])

\* maxIndex, and the loop for i := 0; i <= maxIndex; i++ of NewCmd.  Every
\* indexed field has a Default (vfield.Interface()), so the check that
\* required options do not follow optional ones never panics.
maxIndex(vs) ==
    IF \A k \in 1..Len(vs) : vs[k].Index = -1 THEN -1
    ELSE CHOOSE x \in 0..9 :
            /\ \E k \in 1..Len(vs) : vs[k].Index = x
            /\ \A k \in 1..Len(vs) : vs[k].Index <= x

continuous(vs) == \A x \in 0..maxIndex(vs) : findIndex(vs, x) # 0

\* the help option NewCmd adds at its end
addHelp(argp) ==
    IF findName(argp.vars, <<"h", "e", "l", "p">>) # 0 THEN argp
    ELSE IF findShort(argp.vars, "h") = 0
    THEN AddOpt(argp, FALSE, TBool, "", "h", <<"h", "e", "l", "p">>)
    ELSE AddOpt(argp, FALSE, TBool, "", "", <<"h", "e", "l", "p">>)

\* NewCmd(cmd, description) on a pointer to a struct
NewCmd(cmd) ==
    LET checked(r) ==
            IF r.panic THEN r
            ELSE IF ~continuous(r.argp.vars) THEN Panicked(r.argp)
            ELSE Built(addHelp(r.argp))
    IN  checked(newFields(cmd, 1, [Cmd |-> cmd, cmds |-> {}, vars |-> <<>>]))

\* the panics of AddOpt, AddRest and AddCmd (AddArg has none for a
\* destination of a valid type)
AddOptPanics(argp, short, name) ==
    LET nm == IF name = <<>> THEN (IF short = "" THEN <<>> ELSE <<short>>) ELSE name
    IN  \/ nm = <<>>
        \/ ~isValidName(nm)
        \/ findName(argp.vars, nm) # 0
        \/ short # "" /\ (~isValidName(<<short>>) \/ findShort(argp.vars, short) # 0)

AddRestPanics(argp) == findRest(argp.vars) # 0

AddCmdPanics(argp, name) ==
    \/ \E c \in argp.cmds : c.cmd = name
    \/ Len(name) = 0
    \/ name[1] = "-"

\* the command structs: options with the same name or short, indexed
\* arguments, rest arguments
Fields ==
    { Field(<<"a">>, "a", ""), Field(<<"b">>, "a", ""), Field(<<"a">>, "", ""),
      Field(<<"p">>, "", "0"), Field(<<"q">>, "", "1"), Field(<<"r">>, "", "2"),
      Field(<<"s">>, "", "0"), Field(<<"t">>, "", "*"), Field(<<"u">>, "", "*") }

CmdStructs == UNION {[1..n -> Fields] : n \in 0..MaxFields}

\* the short and name of the calls of AddOpt, and the names of the calls of
\* AddArg, AddRest and AddCmd
OptNames ==
    { [short |-> "a", name |-> <<>>], [short |-> "", name |-> <<"b">>],
      [short |-> "c", name |-> <<"A">>] }
ArgNames == { <<"a">>, <<"z">> }
\* the destinations of the calls of AddArg: a pointer to a string, and a
\* Count on an int
ArgDests == { [typ |-> TString, custom |-> ""], [typ |-> TInt, custom |-> "Count"] }
RestNames == { <<"r", "e", "s", "t">> }
CmdNames == { <<"r", "u", "n">>, <<"R", "u", "n">>, <<"-", "r">> }

BuildInit ==
    /\ scn = "build"
    /\ input = <<>>
    /\ argps = Tree
    /\ pc = "idle"
    /\ node = 1
    /\ args = <<>>
    /\ i = 0
    /\ rest = <<>>
    /\ err = NoError
    /\ ret = <<>>
    /\ first = <<>>
    /\ dest = <<>>
    /\ strs = <<>>
    /\ res = <<>>
    /\ phase = "off"
    /\ parser = New
    /\ subs = <<>>
    /\ calls = 0
    /\ stage = "new"
    /\ status = -1
    /\ runs = 0
    /\ logger = FALSE
    /\ runErr = "nil"
    /\ exec = "off"

caller == <<scn, input, argps, pc, node, args, i, rest, err, ret, first>>

\* argp := NewCmd(cmd, description)
CallNewCmd ==
    /\ stage = "new"
    /\ \E cmd \in CmdStructs :
          LET made(r) ==
                  /\ parser' = r.argp
                  /\ stage' = IF r.panic THEN "panic" ELSE "open"
          IN  made(NewCmd(cmd))
    /\ UNCHANGED <<caller, scanner, process, subs, calls>>

\* argp.AddOpt(dst, short, name, description)
CallAddOpt ==
    /\ stage = "open"
    /\ calls < MaxCalls
    /\ calls' = calls + 1
    /\ \E o \in OptNames :
          IF AddOptPanics(parser, o.short, o.name)
          THEN stage' = "panic" /\ parser' = parser
          ELSE stage' = stage /\ parser' = AddOpt(parser, FALSE, TBool, "", o.short, o.name)
    /\ UNCHANGED <<caller, scanner, process, subs>>

\* argp.AddArg(dst, name, description)
CallAddArg ==
    /\ stage = "open"
    /\ calls < MaxCalls
    /\ calls' = calls + 1
    /\ \E name \in ArgNames, d \in ArgDests :
          parser' = AddArg(parser, Zero(d.typ), d.typ, d.custom, name)
    /\ UNCHANGED <<caller, scanner, process, subs, stage>>

\* argp.AddRest(dst, name, description)
CallAddRest ==
    /\ stage = "open"
    /\ calls < MaxCalls
    /\ calls' = calls + 1
    /\ \E name \in RestNames :
          IF AddRestPanics(parser)
          THEN stage' = "panic" /\ parser' = parser
          ELSE stage' = stage /\ parser' = AddRest(parser, <<>>, name)
    /\ UNCHANGED <<caller, scanner, process, subs>>

\* argp.AddCmd(cmd, name, description): the sub command gets its name and
\* is stored in argp.cmds
CallAddCmd ==
    /\ stage = "open"
    /\ calls < MaxCalls
    /\ calls' = calls + 1
    /\ \E name \in CmdNames :
          IF AddCmdPanics(parser, name)
          THEN stage' = "panic" /\ parser' = parser /\ subs' = subs
          ELSE /\ stage' = stage
               /\ subs' = Append(subs, [name |-> name])
               /\ parser' = AddCmd(parser, name, Len(subs) + 1)
    /\ UNCHANGED <<caller, scanner, process>>

BuildNext ==
    \/ CallNewCmd
    \/ CallAddOpt
    \/ CallAddArg
    \/ CallAddRest
    \/ CallAddCmd

BuildSpec == BuildInit /\ [][BuildNext]_vars

(***************************************************************************)
(* Parse: the arguments of the process are parsed on the root, and where   *)
(* the parser that parse returns has a command the process exits.  Run is  *)
(* the command's, it returns nil, ShowUsage or another error.              *)
(***************************************************************************)

\* the parsers of a program: with and without a command on the root and on
\* the sub command
Programs == {<<[Root EXCEPT !.Cmd = a], [Run EXCEPT !.Cmd = b]>> : a, b \in BOOLEAN}

\* os.Args[1:]
CommandLines ==
    LET words == { <<"r", "u", "n">>, <<"-", "h">>, <<"x">>, <<"-", "-", "x">>, <<"5">> }
    IN  UNION {[1..n -> words] : n \in 0..MaxArgs}

ParseInit ==
    /\ scn = "parse"
    /\ input \in CommandLines
    /\ argps \in Programs
    /\ pc = "idle"
    /\ node = 1
    /\ args = <<>>
    /\ i = 0
    /\ rest = <<>>
    /\ err = NoError
    /\ ret = <<>>
    /\ first = <<>>
    /\ dest = <<>>
    /\ strs = <<>>
    /\ res = <<>>
    /\ phase = "off"
    /\ parser = New
    /\ subs = <<>>
    /\ calls = 0
    /\ stage = "off"
    /\ status = -1
    /\ runs = 0
    /\ logger \in BOOLEAN
    /\ runErr \in {"nil", "ShowUsage", "other"}
    /\ exec = "call"

\* cmd.help: the destination of the help option of the parser parse returned
help == argps[node].vars[findName(argps[node].vars, <<"h", "e", "l", "p">>)].Value

\* os.Exit(code)
Exit(code) ==
    /\ status' = code
    /\ exec' = "exited"
    /\ UNCHANGED <<scn, input, argps, pc, node, args, i, rest, err, ret, first,
                   scanner, builder, runs, logger, runErr>>

\* cmd, rest, err := argp.parse(os.Args[1:])
ParseArgs ==
    /\ exec = "call"
    /\ Becomes(finish(Entry(argps, input)))
    /\ exec' = "parsed"
    /\ UNCHANGED <<scn, input, first, scanner, builder, status, runs, logger, runErr>>

\* if err != nil
ParseFailed ==
    /\ exec = "parsed"
    /\ err # NoError
    /\ Exit(2)

\* else if cmd.help || cmd != argp && cmd.Cmd == nil
PrintHelp ==
    /\ exec = "parsed"
    /\ err = NoError
    /\ help \/ (node # 1 /\ ~argps[node].Cmd)
    /\ Exit(0)

\* else if cmd.Cmd != nil, and len(rest) != 0
UnknownArguments ==
    /\ exec = "parsed"
    /\ err = NoError
    /\ ~(help \/ (node # 1 /\ ~argps[node].Cmd))
    /\ argps[node].Cmd
    /\ Len(ret) # 0
    /\ Exit(2)

\* else if err := cmd.Cmd.Run()
CallRun ==
    /\ exec = "parsed"
    /\ err = NoError
    /\ ~(help \/ (node # 1 /\ ~argps[node].Cmd))
    /\ argps[node].Cmd
    /\ Len(ret) = 0
    /\ runs' = runs + 1
    /\ exec' = "ran"
    /\ UNCHANGED <<scn, input, argps, pc, node, args, i, rest, err, ret, first,
                   scanner, builder, status, logger, runErr>>

\* err != nil: ShowUsage prints the help, another error is logged where
\* argp.Error is set and else printed before os.Exit(1); then os.Exit(2)
RunFailed ==
    /\ exec = "ran"
    /\ runErr # "nil"
    /\ IF runErr # "ShowUsage" /\ ~logger THEN Exit(1) ELSE Exit(2)

\* Run has returned nil
RunDone ==
    /\ exec = "ran"
    /\ runErr = "nil"
    /\ Exit(0)

\* no branch is taken: Parse returns
Return ==
    /\ exec = "parsed"
    /\ err = NoError
    /\ ~(help \/ (node # 1 /\ ~argps[node].Cmd))
    /\ ~argps[node].Cmd
    /\ exec' = "returned"
    /\ UNCHANGED <<scn, input, argps, pc, node, args, i, rest, err, ret, first,
                   scanner, builder, status, runs, logger, runErr>>

ParseNext ==
    \/ ParseArgs
    \/ ParseFailed
    \/ PrintHelp
    \/ UnknownArguments
    \/ CallRun
    \/ RunFailed
    \/ RunDone
    \/ Return

ParseSpec == ParseInit /\ [][ParseNext]_vars

(***************************************************************************)
(* Properties                                                              *)
(***************************************************************************)

\* the loop over the arguments is at an argument
AtArgument == pc = "scan" /\ i < Len(args)

\* a call of parse on the root of ps, run to its return
parse(ps, a) == finish(Entry(ps, a))

\* two calls return the same: parser, remaining arguments, error, destinations
Same(x, y) == Outcome(x) = Outcome(y)

\* the running call with the argument at the cursor replaced by toks
Respelled(toks) == [Cur EXCEPT !.args = Sub(args, 0, i) \o toks \o From(args, i + 1)]

\* the destinations of the options (not the positional and rest bindings)
Options(ps) ==
    [n \in 1..Len(ps) |->
        [k \in 1..Len(ps[n].vars) |->
            IF ps[n].vars[k].Index = -1 /\ ~ps[n].vars[k].Rest
            THEN <<ps[n].vars[k].Value>> ELSE <<>>]]

\* c is the short name of a boolean option of vs
IsBoolOption(vs, c) ==
    LET k == findShort(vs, c)
    IN  k # 0 /\ vs[k].typ.k = "bool" /\ vs[k].custom = ""

\* c is the short name of an option of vs that is not boolean
IsValueOption(vs, c) ==
    LET k == findShort(vs, c)
    IN  k # 0 /\ ~(vs[k].typ.k = "bool" /\ vs[k].custom = "")

\* C1: parse terminates: every pass through the loop over the arguments
\* moves the cursor forward or leaves the loop.
C1_CursorAdvances == [][pc = "scan" => (pc' # "scan" \/ i' > i)]_vars

\* C1: the loop is at an argument that a pass leaves the call unchanged on
C1_Stuck == AtArgument /\ IsLong(args[i + 1]) /\ step(Cur) = Cur

\* the parsers with the destination and the default of binding k of parser n
\* set to the zero value of its type
ZeroDefault(ps, n, k) ==
    LET z == Zero(ps[n].vars[k].typ)
    IN  [ps EXCEPT ![n].vars[k].Value = z, ![n].vars[k].Default = <<z>>]

\* got is the default (and nothing was written), or what is written in the
\* input, which is what a zero default leaves in written
DefaultOrWritten(v, got, written) ==
    \/ got = written
    \/ got = v.Default[1] /\ written = Zero(v.typ)

\* C2: after a successful parse a destination with a default holds the
\* default if its option is absent and exactly the value written in the
\* input if it is present: the same parse with a zero default gives the same
\* value, or the destination holds the default and the zero default is left.
C2_DefaultContributesNothing ==
    (pc = "done" /\ err = NoError) =>
        \A k \in 1..Len(Tree[node].vars) :
            Tree[node].vars[k].Default # <<>> =>
                DefaultOrWritten(Tree[node].vars[k], argps[node].vars[k].Value,
                    parse(ZeroDefault(Tree, node, k), input).argps[node].vars[k].Value)

\* C2: a successful parse left more in a slice than its default and more than
\* the input alone
C2_DefaultKept ==
    /\ pc = "done" /\ err = NoError /\ node = 1
    /\ \E k \in 1..Len(argps[1].vars) :
          /\ argps[1].vars[k].typ.k = "slice"
          /\ Len(argps[1].vars[k].Value) > Len(Tree[1].vars[k].Value)
          /\ Sub(argps[1].vars[k].Value, 0, Len(Tree[1].vars[k].Value))
                = Tree[1].vars[k].Value
          /\ Tree[1].vars[k].Value # <<>>

\* the argument at the cursor is a long option without "=" whose
\* destination, binding k, is boolean
BoolLong(k) ==
    /\ AtArgument
    /\ IsLong(args[i + 1])
    /\ IndexByte(args[i + 1], "=") = -1
    /\ k = findName(argps[node].vars, From(args[i + 1], 2))
    /\ k # 0
    /\ argps[node].vars[k].typ.k = "bool"
    /\ argps[node].vars[k].custom = ""

\* C3: a long option with a boolean destination and no "=" sets the
\* destination to true and consumes no further argument: the cursor moves to
\* the next argument, whatever that is.
C3_BoolLongConsumesNothing ==
    [][\A k \in 1..Len(argps[node].vars) :
          BoolLong(k) => (argps'[node].vars[k].Value = TRUE /\ i' = i + 1 /\ pc' = "scan")]_vars

\* C3: a boolean long option is followed by an argument that reads as a
\* boolean
C3_BoolLiteralFollows ==
    /\ \E k \in 1..Len(argps[node].vars) : BoolLong(k)
    /\ i + 1 < Len(args)
    /\ ParseBool(args[i + 2]).ok

\* arg is a bundle of two or more short options of vs, all boolean
IsBoolBundle(vs, arg) ==
    /\ IsShort(arg)
    /\ 2 < Len(arg)
    /\ \A j \in 2..Len(arg) : IsBoolOption(vs, arg[j])

\* -xyz as -x -y -z
Unbundled(arg) == [j \in 1..(Len(arg) - 1) |-> <<"-", arg[j + 1]>>]

\* C4: a bundle of boolean short options at the cursor gives the same
\* destinations, remaining arguments and error as its options given one by
\* one.
C4_BundleAsSingles ==
    (AtArgument /\ IsBoolBundle(argps[node].vars, args[i + 1])) =>
        Same(finish(Cur), finish(Respelled(Unbundled(args[i + 1]))))

\* C4: the parse of a bundle of boolean options has returned without error
\* and left the destination of one of them false
C4_BundleOptionLost ==
    /\ pc = "done" /\ err = NoError /\ node = 1
    /\ Len(input) = 1
    /\ IsBoolBundle(Tree[1].vars, input[1])
    /\ \E j \in 2..Len(input[1]) :
          argps[1].vars[findShort(Tree[1].vars, input[1][j])].Value = FALSE

\* the position in the short argument arg of its first option that is not
\* boolean, the options before it boolean; 0 if there is none
ValueOption(vs, arg) ==
    IF \E j \in 2..Len(arg) :
          IsValueOption(vs, arg[j]) /\ \A l \in 2..(j - 1) : IsBoolOption(vs, arg[l])
    THEN CHOOSE j \in 2..Len(arg) :
          IsValueOption(vs, arg[j]) /\ \A l \in 2..(j - 1) : IsBoolOption(vs, arg[l])
    ELSE 0

\* the three spellings of the options head with the value V give the same
SpellingsAgree(head, V) ==
    /\ Same(finish(Respelled(<<head \o V>>)), finish(Respelled(<<head \o <<"=">> \o V>>)))
    /\ Same(finish(Respelled(<<head \o V>>)), finish(Respelled(<<head, V>>)))

\* V is a value that option c of vs consumes whole in every spelling: it is
\* not empty and does not begin with "=", and begins with a digit where c
\* counts
IsGluedValue(vs, c, V) ==
    /\ V # <<>>
    /\ V[1] # "="
    /\ vs[findShort(vs, c)].custom = "Count" => IsDigit(V[1])

C6_AfterFirstTerminator ==
    [][(AtArgument /\ \E p \in 1..i : IsTerminator(args[p])) =>
          (rest' = Append(rest, args[i + 1]) /\ Options(argps') = Options(argps))]_vars

\* C6 amended: at a "--" that the loop over the arguments meets (the first
\* that is not consumed as the value of an option) the loop ends, and every
\* argument after it becomes a positional candidate in order; neither this
\* nor the assignment of the candidates changes an option's destination.
C6_TerminatorEndsOptions ==
    [][/\ (AtArgument /\ IsTerminator(args[i + 1])) =>
              /\ pc' = "args"
              /\ rest' = rest \o From(args, i + 1)
              /\ argps' = argps
       /\ pc = "args" => (pc' = "done" /\ Options(argps') = Options(argps))]_vars

\* C6: the loop has ended at a "--" with a "--" and an option among the
\* candidates
C6_DashesAreCandidates ==
    /\ pc = "args"
    /\ \E p \in 1..Len(rest) : IsTerminator(rest[p])
    /\ \E p \in 1..Len(rest) : IsShort(rest[p])

\* the number of candidates that go to indexed bindings: the indices
\* 0, 1, ... below it are registered, and it is the end of the candidates or
\* an index that is not
Assigned(vs, cands) ==
    CHOOSE n \in 0..Len(cands) :
        /\ \A j \in 0..(n - 1) : findIndex(vs, j) # 0
        /\ n = Len(cands) \/ findIndex(vs, n) = 0

\* the candidates after a pass through the loop over the arguments: an
\* argument that is no option and not empty is added at the end
CandidatesKept(cands, after) ==
    LET arg == args[i + 1]
    IN  IF IsTerminator(arg) THEN after = cands \o From(args, i + 1)
        ELSE IF IsLong(arg) \/ IsShort(arg) THEN after = cands
        ELSE IF arg = <<>> THEN after = cands
        ELSE after = Append(cands, arg)

\* candidate j is scanned into binding j, the candidates from n on are the
\* rest binding's value or, without a rest binding, what parse returns
CandidatesAssigned(vs, after, cands, n, returned) ==
    /\ \A j \in 0..(n - 1) :
          LET k == findIndex(vs, j)
          IN  after[k].Value = scanValue(vs[k].typ, vs[k].Value, <<cands[j + 1]>>).val
    /\ IF findRest(vs) # 0
       THEN after[findRest(vs)].Value = From(cands, n) /\ returned = <<>>
       ELSE returned = From(cands, n)

\* C7: the candidates keep the order of the input, with options between them
\* or not; candidate i goes to the binding with index i while there is one,
\* the candidates after those to the rest binding, and without a rest
\* binding they are returned.
C7_CandidatesInOrder ==
    [][/\ (AtArgument /\ pc' # "done") => CandidatesKept(rest, rest')
       /\ (LoopEnded(Cur) /\ pc' = "done" /\ err' = NoError) =>
              CandidatesAssigned(argps[node].vars, argps'[node].vars, rest,
                                 Assigned(argps[node].vars, rest), ret')]_vars

\* C7: parse has returned with an option between two candidates, the first
\* assigned to the binding with index 0 and the second returned
C7_OptionBetweenCandidates ==
    /\ pc = "done" /\ err = NoError /\ node = 1
    /\ Len(input) = 3 /\ IsShort(input[2])
    /\ argps[1].vars[findIndex(argps[1].vars, 0)].Value = input[1]
    /\ ret = <<input[3]>>
    /\ input[1] # input[3]

\* the first argument of the call names a sub command of the root
NamesChild == input # <<>> /\ subCommand(Tree[1], <<ToLower(input[1])>>) # 0

\* parse on the sub command alone, with the arguments after its name
ChildAlone ==
    finish([Entry(Tree, From(input, 1)) EXCEPT
                !.node = subCommand(Tree[1], <<ToLower(input[1])>>)])

\* the option at the cursor is one of sub command n and not of the parser
\* the call runs on
OptionOfChild(n) ==
    /\ AtArgument /\ IsShort(args[i + 1]) /\ node = 1
    /\ findShort(argps[1].vars, args[i + 1][2]) = 0
    /\ findShort(argps[n].vars, args[i + 1][2]) # 0

\* C8: when the first argument is, in any case, the name of a sub command,
\* the arguments after it are parsed by the sub command: its defaults are
\* set, the bindings of the parent are left as they are, and the call returns
\* what the sub command alone returns for those arguments; an option of the
\* sub command given to the parent is an unknown option.
C8_ChildParsesRemainder ==
    /\ (NamesChild /\ pc # "idle") =>
          /\ argps[1] = Tree[1]
          /\ (pc = "parse" /\ node = 1) \/
                (node = subCommand(Tree[1], <<ToLower(input[1])>>) /\ args = From(input, 1))
          /\ (pc = "scan" /\ i = 0) =>
                \A k \in 1..Len(argps[node].vars) :
                    argps[node].vars[k].Default # <<>> =>
                        argps[node].vars[k].Value = argps[node].vars[k].Default[1]
          /\ pc = "done" => Same(Cur, ChildAlone)
    /\ \A n \in 2..Len(Tree) :
          OptionOfChild(n) =>
              finish(Cur).err = Error("unknown option", <<"-", args[i + 1][2]>>)

\* C8: the sub command, named in another case, has returned with its option
\* and its argument set, the bindings of the parent as they were
C8_ChildReturned ==
    /\ NamesChild /\ input[1] # ToLower(input[1])
    /\ pc = "done" /\ err = NoError /\ node = 2
    /\ argps[2].vars[findName(argps[2].vars, <<"n">>)].Value = 5
    /\ argps[2].vars[findIndex(argps[2].vars, 0)].Value = 5

\* C9: after a successful parse every binding that received a value from the
\* input is set: a destination that no longer holds the value it had at
\* registration belongs to a binding with isSet.
C9_AssignedIsSet ==
    (pc = "done" /\ err = NoError) =>
        \A k \in 1..Len(argps[node].vars) :
            argps[node].vars[k].Value # Tree[node].vars[k].Value =>
                argps[node].vars[k].isSet

\* C9: a successful parse has set the destination of a short option and not
\* its isSet
C9_ShortNotSet ==
    /\ pc = "done" /\ err = NoError /\ node = 1
    /\ \E k \in 1..Len(argps[1].vars) :
          /\ argps[1].vars[k].Short # ""
          /\ argps[1].vars[k].Value # Tree[1].vars[k].Value
          /\ ~argps[1].vars[k].isSet

SameOption(vs, a, b) ==
    /\ IsShort(a) /\ IsShort(b)
    /\ a[2] = b[2]
    /\ IsValueOption(vs, a[2])
    /\ vs[findShort(vs, a[2])].custom = ""
    /\ IsGluedValue(vs, a[2], From(a, 2))
    /\ IsGluedValue(vs, b[2], From(b, 2))

\* C11: when an option occurs twice, the later occurrence alone determines
\* the destination: with an occurrence at the cursor and the next one right
\* after it, parse returns what it returns with the earlier one removed.
C11_LastOccurrenceWins ==
    (AtArgument /\ i + 1 < Len(args)
        /\ SameOption(argps[node].vars, args[i + 1], args[i + 2])) =>
        Same(finish(Cur), finish(Respelled(<<>>)))

\* C11: parse has returned without error on two occurrences of a slice
\* option, and the slice holds the values of both
C11_BothOccurrencesKept ==
    /\ pc = "done" /\ err = NoError /\ node = 1
    /\ Len(input) = 2
    /\ SameOption(Tree[1].vars, input[1], input[2])
    /\ \E k \in 1..Len(argps[1].vars) :
          /\ argps[1].vars[k].typ.k = "slice"
          /\ Len(argps[1].vars[k].Value) = Len(Tree[1].vars[k].Value) + 2

\* the options a pass through the loop at the argument arg may scan into:
\* the one a long option names, the ones whose short names a short argument
\* holds
ScannedBy(vs, arg, k) ==
    IF IsLong(arg)
    THEN LET idx == IndexByte(arg, "=")
         IN  k = findName(vs, IF idx # -1 THEN Sub(arg, 2, idx) ELSE From(arg, 2))
    ELSE IsShort(arg) /\ \E j \in 2..Len(arg) : k = findShort(vs, arg[j])

\* what the error of a pass at the argument arg names: "--" and the name of
\* a long option, or "-" and one of the short options of the argument
NamesOption(arg, opt) ==
    IF IsLong(arg)
    THEN LET idx == IndexByte(arg, "=")
         IN  opt = <<"-", "-">> \o (IF idx # -1 THEN Sub(arg, 2, idx) ELSE From(arg, 2))
    ELSE IsShort(arg) /\ \E j \in 2..Len(arg) : opt = <<"-", arg[j]>>

\* what the error of the assignment of the candidates names: the index of a
\* candidate, or the name of a missing argument
NamesArgument(vs, cands, opt) ==
    \/ \E j \in 0..(Len(cands) - 1) : opt = <<Digits[j + 1]>> /\ findIndex(vs, j) # 0
    \/ \E k \in 1..Len(vs) : vs[k].Index # -1 /\ opt = vs[k].Name

InRange(t, x) ==
    IF t.k = "int"
    THEN t.bits >= 32 \/ (0 - Pow2(t.bits - 1) <= x /\ x < Pow2(t.bits - 1))
    ELSE 0 <= x /\ (t.bits >= 32 \/ x < Pow2(t.bits))

\* C13: scanning a string into a fixed-width integer stores the value of a
\* decimal literal inside the range of the kind exactly, and rejects every
\* other string with an invalid integer error, the destination unchanged
C13_RangeChecked ==
    (phase = "done" /\ dest.typ \in IntegerTypes /\ 0 < Len(strs)) =>
        LET p == ParseInt(strs[1])
        IN  IF p.ok /\ InRange(dest.typ, p.v)
            THEN res.err = "" /\ res.val = p.v
            ELSE /\ res.err \in {"invalid integer", "invalid positive integer"}
                 /\ res.val = dest.val

\* 300 is scanned into an int8 without an error and leaves 44
C13_TruncatedStored ==
    /\ phase = "done"
    /\ dest.typ = TIntN(8)
    /\ 0 < Len(strs)
    /\ strs[1] = <<"3", "0", "0">>
    /\ res.err = ""
    /\ res.val = 44

\* the values written in a string: the runs of characters between brackets
\* and commas
Separators == {"[", "]", "{", "}", ","}

RECURSIVE Written(_, _)
Written(tok, word) ==
    IF Len(tok) = 0 THEN IF Len(word) = 0 THEN <<>> ELSE <<word>>
    ELSE IF tok[1] \in Separators
    THEN (IF Len(word) = 0 THEN <<>> ELSE <<word>>) \o Written(From(tok, 1), <<>>)
    ELSE Written(From(tok, 1), Append(word, tok[1]))

\* the values written in the strings s
RECURSIVE Given(_)
Given(s) == IF Len(s) = 0 THEN <<>> ELSE Written(s[1], <<>>) \o Given(From(s, 1))

\* the arity of an array or struct type, and the types of its elements
Arity(t) == IF t.k = "array" THEN t.len ELSE Len(t.fields)
ElemType(t, k) == IF t.k = "array" THEN t.elem ELSE t.fields[k].typ

\* C14: a scan into an array or a struct succeeds only if the strings it
\* consumed hold exactly as many values as the arity, which it assigns in
\* order; every other scan fails and assigns nothing
C14_ExactArity ==
    (phase = "done" /\ dest.typ \in {Pair, Record}) =>
        IF res.err = ""
        THEN LET given == Given(Sub(strs, 0, res.n))
             IN  /\ Len(given) = Arity(dest.typ)
                 /\ \A k \in 1..Arity(dest.typ) :
                       res.val[k] = scanValue(ElemType(dest.typ, k), 0, <<given[k]>>).val
        ELSE res.val = dest.val

\* an empty string is scanned into the array without an error: no element
\* is parsed and the array is left as it was
C14_NoneAccepted ==
    /\ phase = "done"
    /\ dest.typ = Pair
    /\ strs = << <<>> >>
    /\ res.err = ""
    /\ res.n = 1
    /\ res.val = dest.val

\* a string without its braces
Unbraced(tok) == SelectSeq(tok, LAMBDA c : c \notin {"{", "}"})

\* the number of braces in the strings s
RECURSIVE Braces(_)
Braces(s) ==
    IF Len(s) = 0 THEN 0
    ELSE Len(s[1]) - Len(Unbraced(s[1])) + Braces(From(s, 1))

\* the strings are one map literal: a brace opens the first, a brace closes
\* the last, and there are no others
IsMapLiteral(s) ==
    /\ 0 < Len(s)
    /\ 0 < Len(s[1]) /\ s[1][1] = "{"
    /\ 0 < Len(s[Len(s)]) /\ s[Len(s)][Len(s[Len(s)])] = "}"
    /\ Braces(s) = 2

\* a string that is one entry key:value, and one that is a key without a colon
IsEntry(tok) ==
    LET idx == IndexByte(Unbraced(tok), ":")
    IN  0 < idx /\ idx < Len(Unbraced(tok)) - 1

IsBareKey(tok) == 0 < Len(Unbraced(tok)) /\ IndexByte(Unbraced(tok), ":") = -1

\* the next non-empty string after string p begins with a colon
RECURSIVE ColonFollows(_, _)
ColonFollows(s, p) ==
    IF p >= Len(s) THEN FALSE
    ELSE IF Len(s[p + 1]) = 0 THEN ColonFollows(s, p + 1)
    ELSE s[p + 1][1] = ":"

\* string p is a key without a colon that stands where a key is expected
\* and that no colon follows
KeyWithoutColon(s, p) ==
    /\ \A q \in 1..(p - 1) : IsEntry(s[q])
    /\ IsBareKey(s[p])
    /\ ~ColonFollows(s, p)

\* C15: the scan of a map literal with a key that has no colon, wherever
\* the key stands between the braces, fails with the missing semicolon error
C15_KeyNeedsColon ==
    (/\ phase = "done"
     /\ dest.typ.k = "map"
     /\ IsMapLiteral(strs)
     /\ \E p \in 1..Len(strs) : KeyWithoutColon(strs, p)) =>
        res.err = "missing semicolon"

\* the key b has no colon and stands last: the scan succeeds and stores
\* the entry of a alone
C15_LastKeyDropped ==
    /\ phase = "done"
    /\ dest.typ = TMap(TString, TInt)
    /\ strs = << <<"{", "a", ":", "1">>, <<"b", "}">> >>
    /\ res.err = ""
    /\ res.val = SetMapIndex(NilMap, <<"a">>, 1)

\* a string that is a key and its colon, with nothing after the colon
IsKeyColon(tok) ==
    /\ 1 < Len(Unbraced(tok))
    /\ IndexByte(Unbraced(tok), ":") = Len(Unbraced(tok)) - 1

\* string p is a key whose colon is followed by no value: by the end of the
\* braces or by empty strings
EmptyValue(s, p) ==
    /\ \A q \in 1..(p - 1) : IsEntry(s[q])
    /\ IsKeyColon(s[p])
    /\ \A q \in (p + 1)..Len(s) : Unbraced(s[q]) = <<>>

\* C16: the scan of a map literal with a key whose colon is followed by no
\* value does not fail and stores the key with the zero value of the map's
\* value type, whatever that type
C16_EmptyValueIsZero ==
    (phase = "done" /\ dest.typ.k = "map" /\ IsMapLiteral(strs)) =>
        \A p \in 1..Len(strs) :
            EmptyValue(strs, p) =>
                LET w == Unbraced(strs[p])
                    key == Sub(w, 0, Len(w) - 1)
                IN  /\ res.err = ""
                    /\ key \in DOMAIN res.val.kv
                    /\ res.val.kv[key] = Zero(dest.typ.elem)

\* {a:} is scanned into a map of integers: the scan fails on the empty value
C16_EmptyIntegerFails ==
    /\ phase = "done"
    /\ dest.typ = TMap(TString, TInt)
    /\ strs = << <<"{", "a", ":", "}">> >>
    /\ res.err = "invalid integer"
    /\ res.val = NilMap

\* the string a Count is given begins with a digit
DigitFollows(s) == 0 < Len(s) /\ 0 < Len(s[1]) /\ IsDigit(s[1][1])

\* C17: for a Count on a variable of any signed or unsigned integer kind, an
\* occurrence that no digit follows adds exactly 1 to the variable and
\* consumes nothing, and an occurrence followed by a decimal number of the
\* kind sets the variable to that number and consumes it
C17_CountsEveryIntegerKind ==
    (phase = "counted") =>
        IF ~DigitFollows(strs)
        THEN res.err = "" /\ res.n = 0 /\ res.val = dest.val + 1
        ELSE (AllDigits(strs[1]) /\ InRange(dest.typ, DecVal(strs[1]))) =>
                 res.err = "" /\ res.n = 1 /\ res.val = DecVal(strs[1])

\* a Count on a uint8 with no digit following: v.Int() panics
C17_UnsignedPanics ==
    /\ phase = "counted"
    /\ dest.typ = TUintN(8)
    /\ strs = <<>>
    /\ res.err = "panic"
    /\ res.val = dest.val

\* sub command k is stored in the parser under its name
Reachable(k) ==
    \E c \in parser.cmds : c.cmd = ToLower(subs[k].name) /\ c.sub = k

\* C18: no two sub commands that AddCmd has made have the same name
\* ignoring case, whatever the order of the calls, and each sub command is
\* still stored under its name
C18_ChildrenKept ==
    /\ \A j, k \in 1..Len(subs) :
          j # k => ToLower(subs[j].name) # ToLower(subs[k].name)
    /\ \A k \in 1..Len(subs) : Reachable(k)

\* AddCmd of run and then of Run: both calls return, and the sub command of
\* the first call is no longer stored
C18_ChildReplaced ==
    /\ stage = "open"
    /\ Len(subs) = 2
    /\ subs[1].name = <<"r", "u", "n">>
    /\ subs[2].name = <<"R", "u", "n">>
    /\ ~Reachable(1)
    /\ Reachable(2)

\* bindings j and k of the parser under construction have the same short
\* character, or the same name
SameShort(j, k) ==
    parser.vars[j].Short # "" /\ parser.vars[j].Short = parser.vars[k].Short

SameName(j, k) ==
    parser.vars[j].Name # <<>> /\ parser.vars[j].Name = parser.vars[k].Name

\* C19: after NewCmd and any calls of AddOpt, AddArg and AddRest that did
\* not panic, no two bindings of the parser have the same short character
\* and no two have the same name
C19_NamesUnique ==
    (stage = "open") =>
        \A j, k \in 1..Len(parser.vars) :
            j # k => ~SameShort(j, k) /\ ~SameName(j, k)

\* AddArg with the name of an option: the call returns and the parser has
\* an option and an argument of that name
C19_ArgumentNamedAsOption ==
    /\ stage = "open"
    /\ \E j, k \in 1..Len(parser.vars) :
          /\ j < k
          /\ SameName(j, k)
          /\ parser.vars[j].Index = -1 /\ ~parser.vars[j].Rest
          /\ parser.vars[k].Index >= 0

\* the positional indices in use, and the rest bindings, of the parser
\* under construction
IndicesInUse == {parser.vars[k].Index : k \in 1..Len(parser.vars)} \ {-1}
RestBindings == {k \in 1..Len(parser.vars) : parser.vars[k].Rest}

\* the index tags of the command struct, and the fields tagged as rest
IndexTags == {k \in 1..Len(parser.Cmd) : parser.Cmd[k].index \notin {"", "*"}}
RestTags == {k \in 1..Len(parser.Cmd) : parser.Cmd[k].index = "*"}

\* C20: after NewCmd and any calls of AddOpt, AddArg, AddRest and AddCmd
\* that did not panic, the positional indices in use are 0 .. k-1, each of
\* one binding, and there is at most one rest binding; a command struct
\* whose tags skip an index, repeat one or have two rest fields panics
C20_IndicesContiguous ==
    (stage = "open") =>
        /\ IndicesInUse = 0..(Cardinality(IndicesInUse) - 1)
        /\ \A j, k \in 1..Len(parser.vars) :
              (j # k /\ parser.vars[j].Index # -1) =>
                  parser.vars[j].Index # parser.vars[k].Index
        /\ Cardinality(RestBindings) <= 1
        /\ {DigitVal(parser.Cmd[k].index) : k \in IndexTags} = 0..(Cardinality(IndexTags) - 1)
        /\ Cardinality(RestTags) <= 1

\* a command struct with the indices 0 and 1, then AddArg, which gets the
\* index 2, and AddRest
C20_ArgumentAppended ==
    /\ stage = "open"
    /\ Cardinality(IndexTags) = 2
    /\ IndicesInUse = {0, 1, 2}
    /\ Cardinality(RestBindings) = 1
    /\ RestTags = {}

\* binding k of the parser under construction is a positional one, and
\* has a default
IsPositional(k) == parser.vars[k].Index # -1
HasDefault(k) == parser.vars[k].Default # <<>>

\* C21: after NewCmd and any calls that did not panic, no positional binding
\* without a default has a higher index than a positional binding with one
C21_RequiredBeforeOptional ==
    (stage = "open") =>
        \A j, k \in 1..Len(parser.vars) :
            (IsPositional(j) /\ IsPositional(k) /\ ~HasDefault(j) /\ HasDefault(k)) =>
                parser.vars[j].Index < parser.vars[k].Index

\* AddArg of a pointer and then AddArg of a Count: both calls return, and the
\* argument without a default has the higher index
C21_RequiredAfterOptional ==
    /\ stage = "open"
    /\ parser.Cmd = <<>>
    /\ \E j, k \in 1..Len(parser.vars) :
          /\ parser.vars[k].Index = 0 /\ HasDefault(k)
          /\ parser.vars[j].Index = 1 /\ ~HasDefault(j)

\* C22: on parsers whose construction succeeded, with Count destinations
\* among them, a call of parse returns a result or an error and never panics
C22_NeverPanics == pc # "panic"

\* run -u on the sub command whose option u is a Count on a uint8: the call
\* panics in Count.Scan
C22_CountPanics ==
    /\ pc = "panic"
    /\ node = 2
    /\ input = << <<"r", "u", "n">>, <<"-", "u">> >>
    /\ argps[2].vars[findShort(argps[2].vars, "u")].custom = "Count"
    /\ argps[2].vars[findShort(argps[2].vars, "u")].typ = TUintN(8)

\* the argument is -c for an option c with a slice destination, and the
\* argument is a plain one: not empty and no option
IsSliceOption(vs, arg) ==
    /\ IsShort(arg) /\ Len(arg) = 2
    /\ findShort(vs, arg[2]) # 0
    /\ vs[findShort(vs, arg[2])].typ.k = "slice"
    /\ vs[findShort(vs, arg[2])].custom = ""

IsPlain(arg) == arg # <<>> /\ arg[1] # "-"

\* the call a has returned what the call b has, but for the destination of
\* binding k, which holds val
SameBut(a, b, k, val) ==
    /\ a.err = b.err
    /\ a.ret = b.ret
    /\ Values_(a.argps) = [Values_(b.argps) EXCEPT ![node][k] = val]

\* C23: a slice option followed by two plain arguments that end the
\* arguments takes both as its values, and neither is a candidate for the
\* positional arguments: the call returns what it returns without the
\* three arguments, but for the slice, which has the two values added
C23_SeveralValues ==
    (/\ AtArgument /\ i + 3 = Len(args)
     /\ IsSliceOption(argps[node].vars, args[i + 1])
     /\ IsPlain(args[i + 2]) /\ IsPlain(args[i + 3])) =>
        LET k == findShort(argps[node].vars, args[i + 1][2])
        IN  SameBut(finish(Cur), finish([Cur EXCEPT !.args = Sub(args, 0, i)]), k,
                    argps[node].vars[k].Value \o <<args[i + 2], args[i + 3]>>)

\* -s x 5: the slice takes x alone and 5 is scanned into the positional
\* argument file
C23_SecondValuePositional ==
    /\ pc = "done" /\ err = NoError /\ node = 1
    /\ input = << <<"-", "s">>, <<"x">>, <<"5">> >>
    /\ argps[1].vars[findShort(argps[1].vars, "s")].Value = << <<"d">>, <<"x">> >>
    /\ argps[1].vars[findIndex(argps[1].vars, 0)].Value = <<"5">>

\* the positional and rest bindings of parser n: their destinations and isSet
Arguments_(ps, n) ==
    [k \in 1..Len(ps[n].vars) |->
        IF ps[n].vars[k].Index # -1 \/ ps[n].vars[k].Rest
        THEN <<ps[n].vars[k].Value, ps[n].vars[k].isSet>> ELSE <<>>]

\* C24: a pass of the loop over an option argument, long or short, assigns
\* no binding that has a positional index or is the rest binding
C24_OptionsAssignOptions ==
    [][(AtArgument /\ (IsLong(args[i + 1]) \/ IsShort(args[i + 1]))) =>
          Arguments_(argps', node) = Arguments_(argps, node)]_vars

\* --file x: the long option resolves to the positional argument file of
\* AddArg and x is scanned into it
C24_ArgumentByName ==
    /\ pc = "done" /\ err = NoError /\ node = 1
    /\ input = << <<"-", "-", "f", "i", "l", "e">>, <<"x">> >>
    /\ argps[1].vars[findIndex(argps[1].vars, 0)].Name = <<"f", "i", "l", "e">>
    /\ argps[1].vars[findIndex(argps[1].vars, 0)].Value = <<"x">>
    /\ ret = <<>>

\* the fields of a string between its commas
RECURSIVE CommaFields(_, _)
CommaFields(str, word) ==
    IF Len(str) = 0 THEN <<word>>
    ELSE IF str[1] = "," THEN <<word>> \o CommaFields(From(str, 1), <<>>)
    ELSE CommaFields(From(str, 1), Append(word, str[1]))

\* the strings 1 .. m of s, one after the other
RECURSIVE Joined(_, _)
Joined(s, m) == IF m = 0 THEN <<>> ELSE Joined(s, m - 1) \o s[m]

EndsWithComma(tok) == 0 < Len(tok) /\ tok[Len(tok)] = ","
StartsWithComma(tok) == 0 < Len(tok) /\ tok[1] = ","

\* the strings a value in comma form spans, from string p on: a string that
\* ends with a comma is joined to the next, and so is a string whose next
\* begins with a comma
RECURSIVE Spans(_, _)
Spans(s, p) ==
    IF p < Len(s) /\ (EndsWithComma(s[p]) \/ StartsWithComma(s[p + 1]))
    THEN Spans(s, p + 1)
    ELSE p

\* the same, where the empty strings after a field are passed over: m is the
\* last string of the value and n the last string passed over
RECURSIVE SpansOver(_, _)
SpansOver(s, p) ==
    IF EndsWithComma(s[p])
    THEN IF p < Len(s) THEN SpansOver(s, p + 1) ELSE [m |-> p, n |-> p]
    ELSE LET q == p + skipEmpty(From(s, p), 0).n + 1
         IN  IF q <= Len(s) /\ StartsWithComma(s[q]) THEN SpansOver(s, q)
             ELSE [m |-> p, n |-> q - 1]

\* a value in comma form for a slice of strings: the first string is not
\* empty and none begins with a bracket
IsCommaForm ==
    /\ phase = "done"
    /\ dest.typ = Strs
    /\ 0 < Len(strs)
    /\ strs[1] # <<>>
    /\ ~IsBracket(strs[1])

\* C25 as stated: the slice gets the comma separated fields of the strings
\* the value spans, the scan stops before the first string that is not
\* joined by a comma, and the count is the number of strings the value spans
C25_CountIsSpan ==
    IsCommaForm =>
        /\ res.err = ""
        /\ res.n = Spans(strs, 1)
        /\ res.val = dest.val \o CommaFields(Joined(strs, Spans(strs, 1)), <<>>)

\* C25: the slice gets the comma separated fields of the strings the value
\* spans, where the empty strings after a field are passed over, and the
\* count is the number of strings of the value and those passed over after it
C25_CountIsConsumed ==
    IsCommaForm =>
        /\ res.err = ""
        /\ res.n = SpansOver(strs, 1).n
        /\ res.val = dest.val \o CommaFields(Joined(strs, SpansOver(strs, 1).m), <<>>)

\* a, an empty string and a again: the slice gets a alone and the count is 2,
\* the empty string included
C25_EmptyPassedOver ==
    /\ phase = "done"
    /\ dest.typ = Strs
    /\ strs = << <<"a">>, <<>>, <<"a">> >>
    /\ res.err = ""
    /\ res.n = 2
    /\ res.val = << <<"a">> >>

\* the brackets of the strings s in their order, each with the string it is
\* in (from 1) and whether it is the last character of that string
RECURSIVE BracketsOf(_, _, _)
BracketsOf(s, n, k) ==
    IF n > Len(s) THEN <<>>
    ELSE IF k > Len(s[n]) THEN BracketsOf(s, n + 1, 1)
    ELSE IF s[n][k] \in {"[", "]", "{", "}"}
    THEN <<[c |-> s[n][k], n |-> n, last |-> k = Len(s[n])]>> \o BracketsOf(s, n, k + 1)
    ELSE BracketsOf(s, n, k + 1)

\* the bracket that closes the first open bracket: open is the sequence of
\* the brackets open before bracket p.  The result is that bracket, or none
\* where a close does not match its open or the first bracket is never closed
NoClose == [c |-> "", n |-> 0, last |-> FALSE]

RECURSIVE ClosingBracket(_, _, _)
ClosingBracket(brs, p, open) ==
    IF p > Len(brs) THEN NoClose
    ELSE IF brs[p].c \in {"[", "{"} THEN ClosingBracket(brs, p + 1, Append(open, brs[p].c))
    ELSE IF open = <<>> THEN NoClose
    ELSE IF <<open[Len(open)], brs[p].c>> \notin {<<"[", "]">>, <<"{", "}">>} THEN NoClose
    ELSE IF Len(open) = 1 THEN brs[p]
    ELSE ClosingBracket(brs, p + 1, Sub(open, 0, Len(open) - 1))

\* the whole strings between the outer brackets of the strings 1 .. n: the
\* first without its bracket and the last without its bracket, and neither
\* where the bracket is all there is of it
Between(s, n) ==
    LET opened == IF Len(s[1]) = 1 THEN Sub(s, 1, n)
                  ELSE <<From(s[1], 1)>> \o Sub(s, 1, n)
        m == Len(opened)
    IN  IF Len(opened[m]) = 1 THEN Sub(opened, 0, m - 1)
        ELSE Sub(opened, 0, m - 1) \o <<Sub(opened[m], 0, Len(opened[m]) - 1)>>

\* a value in bracket form for a slice of strings
IsBracketForm ==
    phase = "done" /\ dest.typ = Strs /\ 0 < Len(strs) /\ IsBracket(strs[1])

\* C26: a value in bracket form is scanned through the string with the bracket
\* that closes the first one, every whole string between the outer brackets
\* is one element, and the scan fails where the brackets do not match, are
\* not closed or the closing bracket is followed by more characters
C26_TokensAreElements ==
    IsBracketForm =>
        LET close == ClosingBracket(BracketsOf(strs, 1, 1), 1, <<>>)
        IN  IF close.n # 0 /\ close.last
            THEN /\ res.err = ""
                 /\ res.n = close.n
                 /\ res.val = dest.val \o Between(strs, close.n)
            ELSE res.err # "" /\ res.n = 0

\* [, [a and b]]: two strings between the outer brackets and one element, [a
C26_NestedTokenDropped ==
    /\ phase = "done"
    /\ dest.typ = Strs
    /\ strs = << <<"[">>, <<"[", "a">>, <<"b", "]", "]">> >>
    /\ res.err = ""
    /\ res.n = 3
    /\ res.val = << <<"[", "a">> >>

\* the parts of a string between the characters of seps, the empty ones left out
RECURSIVE PartsOf(_, _, _)
PartsOf(str, seps, word) ==
    LET done == IF word = <<>> THEN <<>> ELSE <<word>>
    IN  IF Len(str) = 0 THEN done
        ELSE IF str[1] \in seps THEN done \o PartsOf(From(str, 1), seps, <<>>)
        ELSE PartsOf(From(str, 1), seps, Append(word, str[1]))

\* the name of a long option, before its "=", and the keys, indices and
\* fields it addresses after the name of its binding
LongName(arg) ==
    IF IndexByte(arg, "=") # -1 THEN Sub(arg, 2, IndexByte(arg, "=")) ELSE From(arg, 2)

Addressed(arg) == From(PartsOf(LongName(arg), {".", "[", "]"}, <<>>), 1)

HasAddress(arg) == IndexAny(LongName(arg), {".", "["}) # -1

\* the key or index a part of a name stands for in a value of type t, 0 for
\* a field that is none of the struct's
KeyOf(t, part) ==
    IF t.k = "struct"
    THEN First([x \in 1..Len(t.fields) |-> ToLower(t.fields[x].name) = part])
    ELSE IF t.k = "map" /\ t.key.k = "string" THEN part
    ELSE IF t.k = "map" THEN ParseInt(part).v
    ELSE ParseInt(part).v + 1

PartType(t, x) == IF t.k = "struct" THEN t.fields[x].typ ELSE t.elem

\* the address names a part of the value: every key parses, every index is
\* within the length and every field is one of the struct's
RECURSIVE IsAddress(_, _, _)
IsAddress(t, val, parts) ==
    IF parts = <<>> THEN TRUE
    ELSE LET x == KeyOf(t, parts[1])
         IN  IF t.k = "map"
             THEN /\ (t.key.k = "string" \/ ParseInt(parts[1]).ok)
                  /\ IsAddress(t.elem, IF x \in DOMAIN val.kv THEN val.kv[x] ELSE Zero(t.elem),
                               From(parts, 1))
             ELSE /\ (t.k = "struct" \/ ParseInt(parts[1]).ok)
                  /\ x \in 1..Len(val)
                  /\ IsAddress(PartType(t, x), val[x], From(parts, 1))

\* new is old but for the part at the address: every other entry, element
\* and field is the same, at every depth
RECURSIVE SameOutside(_, _, _, _)
SameOutside(t, old, new, parts) ==
    IF parts = <<>> THEN TRUE
    ELSE LET x == KeyOf(t, parts[1])
         IN  IF t.k = "map"
             THEN /\ DOMAIN new.kv \subseteq DOMAIN old.kv \cup {x}
                  /\ \A y \in DOMAIN old.kv :
                        /\ y \in DOMAIN new.kv
                        /\ y # x => new.kv[y] = old.kv[y]
                  /\ (x \in DOMAIN old.kv /\ x \in DOMAIN new.kv) =>
                        SameOutside(t.elem, old.kv[x], new.kv[x], From(parts, 1))
             ELSE /\ Len(new) = Len(old)
                  /\ \A y \in 1..Len(old) : y # x => new[y] = old[y]
                  /\ SameOutside(PartType(t, x), old[x], new[x], From(parts, 1))

\* the binding of the long option at the cursor
LongBinding == findName(argps[node].vars, LongName(args[i + 1]))

AtAddress ==
    /\ AtArgument
    /\ IsLong(args[i + 1])
    /\ HasAddress(args[i + 1])
    /\ LongBinding # 0
    /\ argps[node].vars[LongBinding].custom = ""

\* C27: a long option that addresses a part of its destination changes that
\* part alone: every other binding and every other entry, element and field
\* of the destination keep their values, at every depth; a key that does not
\* parse and an index outside the length are errors that change nothing
C27_OnlyAddressedPart ==
    [][AtAddress =>
        LET k == LongBinding
            old == argps[node].vars[k]
            new == argps'[node].vars[k]
            parts == Addressed(args[i + 1])
        IN  /\ \A n \in 1..Len(argps) : \A j \in 1..Len(argps[n].vars) :
                    <<n, j>> # <<node, k>> => argps'[n].vars[j].Value = argps[n].vars[j].Value
            /\ IF IsAddress(old.typ, old.Value, parts)
               THEN SameOutside(old.typ, old.Value, new.Value, parts)
               ELSE err' # NoError /\ new.Value = old.Value]_vars

\* --w[1][0]=5 on the map 1: [7 8]: the entry becomes [5 0], its element 1
\* is the zero value
C27_SiblingReset ==
    /\ pc = "done"
    /\ err = NoError
    /\ input = << <<"-", "-", "w", "[", "1", "]", "[", "0", "]", "=", "5">> >>
    /\ argps[1].vars[11].Short = "w"
    /\ argps[1].vars[11].Value.kv[1] = <<5, 0>>

\* the status Parse is to exit with
ExitStatus ==
    IF err # NoError THEN 2
    ELSE IF help THEN 0
    ELSE IF Len(ret) # 0 THEN 2
    ELSE IF runErr = "nil" THEN 0
    ELSE IF runErr = "ShowUsage" THEN 2
    ELSE 1

\* C28: where the parser parse returns has a command, Parse does not return
\* and the process exits with 0 after the help or a Run without error, with 2
\* after an error of parse, unknown arguments or ShowUsage, and with 1 after
\* another error of Run, with and without a logger; Run is called at most
\* once, after a parse without error that left no arguments
C28_ExitStatus ==
    (exec \in {"ran", "exited", "returned"} /\ argps[node].Cmd) =>
        /\ exec # "returned"
        /\ exec = "exited" => status = ExitStatus
        /\ runs <= 1
        /\ runs = 1 => (err = NoError /\ Len(ret) = 0)

\* Run on the root returns another error and a logger is set: the process
\* exits with 2
C28_LoggedErrorExitsWith2 ==
    /\ exec = "exited"
    /\ argps[node].Cmd
    /\ node = 1
    /\ input = <<>>
    /\ runs = 1
    /\ runErr = "other"
    /\ logger
    /\ status = 2

\* C29: parse assigns nothing to the arguments of the caller: during and
\* after the call every argument reads as it was passed (a sub command is
\* called on the arguments after its name)
C29_ArgumentsKept ==
    pc # "idle" => args = From(input, Len(input) - Len(args))

\* --s x,5 on the slice of strings: the caller's second argument reads 5
\* after the call
C29_ArgumentRewritten ==
    /\ pc = "done"
    /\ err = NoError
    /\ input = << <<"-", "-", "s">>, <<"x", ",", "5">> >>
    /\ args = << <<"-", "-", "s">>, <<"5">> >>

\* the bindings of the root that record a default at registration
Defaulted == {k \in 1..Len(Root.vars) : Root.vars[k].Default # <<>>}

\* C30: a call of parse changes no default recorded at registration, and a
\* call without arguments after it sets every destination with a default
\* back to the value it had at registration
C30_DefaultsRestored ==
    (pc = "done" /\ node = 1) =>
        LET after == finish(Entry(argps, <<>>))
        IN  \A k \in Defaulted :
                /\ argps[1].vars[k].Default = Root.vars[k].Default
                /\ after.argps[1].vars[k].Value = Root.vars[k].Value

\* -m{a:1} on the map k: 1: the default of the map has the entry a as well,
\* and so has the destination after a call without arguments
C30_DefaultGrown ==
    /\ pc = "done"
    /\ err = NoError
    /\ input = << <<"-", "m", "{", "a", ":", "1", "}">> >>
    /\ Root.vars[8].Short = "m"
    /\ DOMAIN Root.vars[8].Default[1].kv = {<<"k">>}
    /\ DOMAIN argps[1].vars[8].Default[1].kv = {<<"k">>, <<"a">>}
    /\ DOMAIN finish(Entry(argps, <<>>)).argps[1].vars[8].Value.kv = {<<"k">>, <<"a">>}

====
